---- MODULE Spec2Model ----
(***************************************************************************)
(* A model of the rin bot: the ReAct tool loop chatWithTools of llm.js     *)
(* with its model client (_retryCreate, chat), the tool registry and       *)
(* executor of tools.js, and the per-user request bookkeeping of bot.js.   *)
(*                                                                         *)
(* Texts are sequences of tokens: a token is a word, a phrase or a run of  *)
(* whitespace (" ").  A regular expression of the source that looks for a  *)
(* word is a test for a token of a set; String.trim removes the whitespace *)
(* tokens at both ends.                                                    *)
(***************************************************************************)
EXTENDS Integers, Sequences, FiniteSets, TLC

\* ------------------------------------------------------------------------
\* Program constants
\* ------------------------------------------------------------------------
MAX_ROUNDS == 12
maxRetries == 3
FirstDelayMs == 1000
LaterDelayMs == 3000

\* ------------------------------------------------------------------------
\* Bounds of the model
\* ------------------------------------------------------------------------
\* tool calls in one model response
MaxCalls == 2
\* text messages the bot receives
MaxMessages == 3
\* the model's first answer other than the routine one comes in the first round or
\* in one of the last MaxLate rounds
MaxLate == 1

\* ------------------------------------------------------------------------
\* Texts
\* ------------------------------------------------------------------------
WS == " "

RECURSIVE trimStart(_)
trimStart(t) ==
  IF t # <<>> /\ Head(t) = WS THEN trimStart(Tail(t)) ELSE t

RECURSIVE trimEnd(_)
trimEnd(t) ==
  IF t # <<>> /\ t[Len(t)] = WS THEN trimEnd(SubSeq(t, 1, Len(t) - 1)) ELSE t

trim(t) == trimEnd(trimStart(t))

HasWord(t, words) == \E i \in 1..Len(t) : t[i] \in words

\* /\bA\b.*\bB\b/ : a token of A followed, later, by a token of B
HasWordThen(t, as, bs) ==
  \E i \in 1..Len(t) : \E j \in 1..Len(t) : i < j /\ t[i] \in as /\ t[j] \in bs

\* a variant of the leak test that knows the print(default_api. form alone
_looksLikeToolCodeLeakPrintOnly(text) ==
  LET trimmed == trimStart(text)
  IN  trimmed # <<>> /\ Head(trimmed) = "print(default_api."

_looksLikeToolCodeLeak(text) ==
  IF text = <<>> THEN FALSE
  ELSE LET trimmed == trimStart(text)
       IN  IF trimmed # <<>> /\ Head(trimmed) = "tool_code" THEN TRUE
           ELSE IF trimmed # <<>> /\ Head(trimmed) = "print(default_api." THEN TRUE
           ELSE FALSE

\* ------------------------------------------------------------------------
\* Messages
\* ------------------------------------------------------------------------
NoCalls == <<>>
NoId == 0

Msg(role, content) ==
  [role |-> role, content |-> content, tool_call_id |-> NoId, tool_calls |-> NoCalls]

ToolMsg(id, content) ==
  [role |-> "tool", content |-> content, tool_call_id |-> id, tool_calls |-> NoCalls]

_getLastUserText(msgs) ==
  LET users == {i \in 1..Len(msgs) : msgs[i].role = "user"}
  IN  IF users = {} THEN <<>>
      ELSE msgs[CHOOSE i \in users : \A j \in users : j <= i].content

\* ------------------------------------------------------------------------
\* Tool registry (buildTools)
\* ------------------------------------------------------------------------
\* process.env.GOOGLE_AGENT_V2 !== '0', read once when the module is loaded
GOOGLE_AGENT_V2_ENABLED(setting) == setting # "0"

GoogleDataKeys(v2) ==
  <<"google_drive_list", "google_drive_create_file", "google_drive_create_folder",
    "google_drive_update_file", "google_drive_delete_file",
    "google_calendar_list", "google_calendar_create_event",
    "google_calendar_update_event", "google_calendar_delete_event",
    "gmail_read_unread", "gmail_inbox_read">>
  \o (IF v2
      THEN <<"gmail_send", "gmail_reply", "gmail_draft_create", "gmail_label_add",
             "gmail_label_remove", "gmail_mark_read", "gmail_mark_unread">>
      ELSE <<>>)
  \o <<"google_tasks_list", "google_tasks_create", "google_tasks_update",
       "google_tasks_delete", "google_classroom_get_assignments",
       "google_classroom_list_courses", "google_classroom_list_coursework">>

\* a variant of the key list that shows the scope diagnostics to linked users alone
ALL_USER_KEYSLinkedStatus(hasGoogleAuth, v2) ==
  <<"think", "plan", "reflect",
    "browse_url",
    "set_reminder", "list_reminders", "delete_reminder",
    "save_note", "get_notes", "delete_note",
    "storage_set", "storage_get", "storage_delete", "storage_list",
    "google_capabilities", "google_auth_status">>
  \o (IF hasGoogleAuth THEN <<"google_scope_status">> \o GoogleDataKeys(v2) ELSE <<>>)
  \o <<"read_file", "write_file", "list_directory", "delete_file", "send_file">>

ALL_USER_KEYS(hasGoogleAuth, v2) ==
  <<"think", "plan", "reflect",
    "browse_url",
    "set_reminder", "list_reminders", "delete_reminder",
    "save_note", "get_notes", "delete_note",
    "storage_set", "storage_get", "storage_delete", "storage_list",
    "google_capabilities", "google_auth_status", "google_scope_status">>
  \o (IF hasGoogleAuth THEN GoogleDataKeys(v2) ELSE <<>>)
  \o <<"read_file", "write_file", "list_directory", "delete_file", "send_file">>

ADMIN_KEYS ==
  <<"run_command", "update_bot", "convert_file",
    "system_health", "pm2_status", "api_usage",
    "create_cron", "list_crons", "delete_cron",
    "add_health_check", "list_health_checks", "remove_health_check",
    "create_webhook", "list_webhooks", "delete_webhook">>

Range(s) == {s[i] : i \in 1..Len(s)}

\* the declaration list of buildTools: keys.map(k => DEF[k])
definitions(isAdmin, hasGoogleAuth, v2) ==
  IF isAdmin THEN ADMIN_KEYS \o ALL_USER_KEYS(hasGoogleAuth, v2)
  ELSE ALL_USER_KEYS(hasGoogleAuth, v2)

_getToolNames(toolDefs) == Range(toolDefs)

\* the case labels of the executor's switch: the names it has an implementation for
MetaTools == {"think", "plan", "reflect"}

ExecutorCases == (Range(ALL_USER_KEYS(TRUE, TRUE)) \ MetaTools) \cup Range(ADMIN_KEYS)

\* ------------------------------------------------------------------------
\* Heuristics over the user's text and the candidate answer
\* ------------------------------------------------------------------------
GoogleServiceWords == {"google", "gmail", "drive", "calendar", "task", "tasks", "classroom"}
CapabilityWords ==
  {"can you", "capab", "access", "permission", "permissions", "what can you do",
   "what can you access"}
GoogleIntentWords ==
  {"google", "gmail", "email", "inbox", "calendar", "schedule", "meeting", "drive",
   "classroom", "assignment", "homework", "task", "todo", "to-do"}

\* the two tests of line 282-284, on the text as given
isGoogleCapabilityRequestOf(text) ==
  HasWord(text, GoogleServiceWords) /\ HasWord(text, CapabilityWords)

_shouldForceToolGrounding(lastUserText, toolNames) ==
  LET text == lastUserText
      googleCapabilityIntent ==
        HasWord(text, GoogleServiceWords) /\ HasWord(text, CapabilityWords)
      googleIntent == HasWord(text, GoogleIntentWords)
      reminderIntent == HasWord(text, {"remind", "reminder"})
      notesIntent == HasWord(text, {"save this", "save that", "take a note", "remember this", "note"})
      fileIntent == HasWord(text, {"my files", "list files", "directory", "folder", "uploaded"})
      systemIntent == HasWord(text, {"check server", "system status", "cpu", "memory", "pm2", "log", "logs"})
  IN  IF text = <<>> THEN FALSE
      ELSE IF googleCapabilityIntent /\ "google_capabilities" \in toolNames THEN TRUE
      ELSE IF googleIntent
              /\ ({"google_auth_status", "google_scope_status", "google_calendar_list",
                   "gmail_read_unread", "google_drive_list", "google_tasks_list",
                   "google_classroom_get_assignments"} \cap toolNames # {}) THEN TRUE
      ELSE IF reminderIntent /\ "set_reminder" \in toolNames THEN TRUE
      ELSE IF notesIntent /\ ({"save_note", "get_notes"} \cap toolNames # {}) THEN TRUE
      ELSE IF fileIntent /\ ({"list_directory", "read_file"} \cap toolNames # {}) THEN TRUE
      ELSE IF systemIntent /\ ({"run_command", "system_health"} \cap toolNames # {}) THEN TRUE
      ELSE FALSE

CannotWords == {"cannot", "can't"}
CrudWords == {"create", "add", "edit", "update", "delete", "modify"}

_looksLikeUnsupportedGoogleCapabilityClaim(text, toolNames) ==
  LET content == text
      mentionsGoogleService ==
        HasWord(content, {"google", "drive", "gmail", "inbox", "calendar", "task", "tasks", "classroom"})
      privacyExcuseOrFalseRestriction ==
        \/ HasWord(content, {"privacy", "security feature", "snippet access", "view only"})
        \/ HasWordThen(content, {"cannot read", "cannot access", "can't read"}, {"inbox"})
        \/ HasWordThen(content, {"cannot access", "can't access"}, {"classroom"})
      contradictsDriveCrud ==
        /\ {"google_drive_create_file", "google_drive_update_file", "google_drive_delete_file"}
             \cap toolNames # {}
        /\ HasWord(content, {"drive"})
        /\ HasWordThen(content, CannotWords, CrudWords)
      contradictsCalendarCrud ==
        /\ {"google_calendar_create_event", "google_calendar_update_event",
             "google_calendar_delete_event"} \cap toolNames # {}
        /\ HasWord(content, {"calendar"})
        /\ HasWordThen(content, CannotWords, CrudWords)
      contradictsTasksCrud ==
        /\ {"google_tasks_create", "google_tasks_update", "google_tasks_delete"}
             \cap toolNames # {}
        /\ HasWord(content, {"task"})
        /\ HasWordThen(content, CannotWords, CrudWords)
      contradictsGmailInboxRead ==
        /\ "gmail_inbox_read" \in toolNames
        /\ HasWord(content, {"gmail", "inbox"})
        /\ \/ \E i \in 1..Len(content) : \E j \in 1..Len(content) : \E k \in 1..Len(content) :
                 /\ i < j /\ j < k
                 /\ content[i] \in CannotWords
                 /\ content[j] \in {"read", "access"}
                 /\ content[k] = "inbox"
           \/ HasWord(content, {"snippet access"})
      contradictsGmailActions ==
        /\ {"gmail_send", "gmail_reply", "gmail_draft_create", "gmail_label_add"}
             \cap toolNames # {}
        /\ HasWord(content, {"gmail", "email", "inbox"})
        /\ HasWordThen(content, CannotWords,
                       {"send", "reply", "draft", "label", "mark read", "mark unread", "modify"})
  IN  IF content = <<>> THEN FALSE
      ELSE IF "google_auth_status" \notin toolNames THEN FALSE
      ELSE IF ~mentionsGoogleService THEN FALSE
      ELSE \/ privacyExcuseOrFalseRestriction
           \/ contradictsDriveCrud
           \/ contradictsCalendarCrud
           \/ contradictsTasksCrud
           \/ contradictsGmailInboxRead
           \/ contradictsGmailActions

\* ------------------------------------------------------------------------
\* Model routing
\* ------------------------------------------------------------------------
MODEL == "MODEL"
COMPLEX_MODEL == "COMPLEX_MODEL"

_shouldUseComplexModel(lastUserText, toolNames) ==
  LET text == lastUserText
      multiStepIntent ==
        \/ HasWord(text, {"then", "after that", "also", "next", "for each", "step by step", "plan"})
        \/ \E i \in 1..Len(text) : \E j \in 1..Len(text) : \E k \in 1..Len(text) :
              /\ i < j /\ j < k
              /\ text[i] \in {"check", "read", "scan", "fetch", "find"}
              /\ text[j] \in {"and", "then"}
              /\ text[k] \in {"remind", "reply", "send", "label", "update", "create"}
      highStakesGoogleIntent ==
        /\ HasWord(text, {"gmail", "email", "inbox", "calendar", "drive", "task", "tasks", "classroom"})
        /\ HasWord(text, {"urgent", "important", "all", "every", "summarize", "triage",
                          "organize", "categorize"})
      capabilityIntent ==
        /\ HasWord(text, GoogleServiceWords)
        /\ HasWord(text, {"capab", "access", "permission", "scope", "what can you do"})
  IN  IF text = <<>> THEN FALSE
      ELSE \/ multiStepIntent
           \/ highStakesGoogleIntent
           \/ capabilityIntent
           \/ (Cardinality(toolNames) > 14 /\ HasWord(text, {"do", "handle", "manage"}))

_selectModel(routerEnabled, msgs, toolDefs) ==
  IF ~routerEnabled THEN MODEL
  ELSE IF _shouldUseComplexModel(_getLastUserText(msgs), _getToolNames(toolDefs))
       THEN COMPLEX_MODEL ELSE MODEL

\* ------------------------------------------------------------------------
\* What the model, the model client and the tools may answer
\* ------------------------------------------------------------------------
\* arguments of a tool call: a JSON text (well-formed or not) and the object it encodes
AbsentText == [kind |-> "absent", text |-> <<>>]
StringText(t) == [kind |-> "string", text |-> t]
NumberValue == [kind |-> "number", text |-> <<>>]

ArgsObject(steps, revised) == [steps |-> steps, revised_answer |-> revised]
JsonText(obj) == [json |-> TRUE, obj |-> obj]
BadJsonText == [json |-> FALSE, obj |-> ArgsObject(<<>>, AbsentText)]

NoArgs == ArgsObject(<<>>, AbsentText)

Call(name, arguments) == [name |-> name, arguments |-> arguments]

ThinkCall == Call("think", JsonText(NoArgs))

CallAlphabet ==
  { Call("plan", JsonText(ArgsObject(<<"s1", "s2">>, AbsentText))),
    Call("reflect", JsonText(ArgsObject(<<>>, StringText(<<"null">>)))),
    Call("reflect", JsonText(ArgsObject(<<>>, StringText(<<WS, "revised", WS>>)))),
    Call("reflect", JsonText(ArgsObject(<<>>, NumberValue))),
    Call("read_file", JsonText(NoArgs)),
    Call("browse_url", BadJsonText),
    Call("run_command", JsonText(NoArgs)) }

\* the model numbers the calls of one response: ids 1, 2, ...
WithIds(calls) ==
  [i \in 1..Len(calls) |->
     [id |-> i, name |-> calls[i].name, arguments |-> calls[i].arguments]]

CallLists == UNION {[1..n -> CallAlphabet] : n \in 1..MaxCalls}

Response(content, calls) == [content |-> content, tool_calls |-> calls]

CanonicalResponse == Response(<<>>, WithIds(<<ThinkCall>>))
VariedResponses == {Response(<<>>, WithIds(cs)) : cs \in CallLists}

FinalTexts == { <<>>, <<"ok", WS>>, <<WS, "tool_code">>, <<"print(default_api.">>,
               <<"gmail", "privacy">> }
FinalResponses == {Response(t, NoCalls) : t \in FinalTexts}

\* what a completion without tools answers
PlainTexts == { <<>>, <<"fine", WS>>, <<"tool_code">> }

\* errors of the model client: an HTTP status (0: none, a network-level failure),
\* whether the message matches /tool|function/i, and the error's name
Err(status, toolMsg) == [status |-> status, toolMsg |-> toolMsg, name |-> "Error"]
NoErr == [status |-> 0, toolMsg |-> FALSE, name |-> "none"]
AbortErr == [status |-> 0, toolMsg |-> FALSE, name |-> "AbortError"]

ClientErrors ==
  { Err(400, TRUE), Err(400, FALSE), Err(401, FALSE), Err(429, FALSE),
    Err(500, FALSE), Err(500, TRUE), Err(0, FALSE) }

\* errors of a tool implementation: the message, with a path and a stack line
PathTokens == {"/home/rin/uploads/7/a.txt"}
StackTokens == {"\n    at readFile (/app/src/files.js:12:5)"}
ToolFailures == { <<"ENOENT:", "/home/rin/uploads/7/a.txt", "\n    at readFile (/app/src/files.js:12:5)">> }

RECURSIVE sanitize(_)
sanitize(t) ==
  IF t = <<>> THEN <<>>
  ELSE IF Head(t) \in StackTokens THEN sanitize(Tail(t))
  ELSE IF Head(t) \in PathTokens THEN <<"<path>">> \o sanitize(Tail(t))
  ELSE <<Head(t)>> \o sanitize(Tail(t))

\* a variant that leaves the marker out
ToolErrorBare(message) == sanitize(message)

ToolError(message) == <<"Tool error:">> \o sanitize(message)

\* errors of the filesystem that files.js catches: err.message names the path
FsFailures == { <<"ENOENT: no such file or directory, stat", "/home/rin/uploads/7/a.txt">> }

\* the tools whose implementation in files.js catches its errors and returns
\* "Error: " and err.message as its result
CatchingTools == {"read_file", "write_file", "list_directory", "delete_file"}

\* the executor's answer: the implementation's result, or the default branch
ExecutorResult(toolName) ==
  IF toolName \in ExecutorCases THEN <<"result of", toolName>>
  ELSE <<"Unknown tool:", toolName>>

\* what the executor can return for a tool: its result or, from files.js, the
\* text of a caught error
ExecutorResults(toolName) ==
  {ExecutorResult(toolName)}
    \cup (IF toolName \in CatchingTools
          THEN {<<"Error:">> \o message : message \in FsFailures}
          ELSE {})

\* ------------------------------------------------------------------------
\* Fixed messages of the loop
\* ------------------------------------------------------------------------
SystemMsg == Msg("system", <<"system prompt">>)
GroundingNudge == Msg("user", <<"Do not guess for this request. Use relevant tools now.">>)
PreflightNudge == Msg("user", <<"Before finalizing capability answers, call google_capabilities first.">>)
CapabilityCorrection == Msg("user", <<"Your previous message made an unsupported Google capability claim.">>)
SummariseMsg == Msg("user", <<"Summarise what you found or did.">>)
verifyPrompt == Msg("user", <<"Run a strict final verification pass on your previous answer against the completed tool results.">>)
PlanDone == <<"Done - all planned steps completed.">>
ThoughtNoted == <<"Thought noted. Continue.">>
ReflectionComplete == <<"Reflection complete - original answer is satisfactory.">>
PlanSet(steps) == <<"Plan set:">> \o steps \o <<"Now execute each step in order using the available tools.">>

AssistantMsg(resp) ==
  [role |-> "assistant", content |-> resp.content, tool_call_id |-> NoId,
   tool_calls |-> resp.tool_calls]

\* ------------------------------------------------------------------------
\* State of one call chatWithTools(messages, toolDefs, executor, {signal})
\* ------------------------------------------------------------------------
VARIABLES
  \* the caller: buildTools' flags, the router switch, the arguments, the signal
  isAdmin, hasGoogleAuth, routerEnabled, messages, toolDefs, aborted,
  \* locals of chatWithTools
  current, round, groundingNudgeUsed, capabilityPreflightAttempts, activePlan,
  externalToolCalls, verificationPassDone, capabilityCorrectionUsed,
  googleCapabilitiesChecked, routedModel, msg, tcIdx,
  \* where the call stands, and the _retryCreate call it awaits
  pc, req, attempt, delayMs,
  \* what the call gave back to its caller
  result,
  \* observations: completions issued, names passed to the executor
  toolCompletions, plainCompletions, dispatched,
  answered,
  \* the environment: how the model has answered so far, and the most tool
  \* calls it puts in one response
  deviated, usedVaried, maxCalls,
  \* bot.js: the text handlers, the map activeRequests, the replies to /cancel
  handlers, activeRequests, cancelReply,
  \* tools.js: the filesystem, the file tool called and what it acted on
  fs, fileCall, fileOutcome,
  \* bot.js buildMessageHistory: the stored rows, where the call stands, the
  \* message lists passed to summarizeHistory, the list returned
  memories, histPc, summarized, historyMessages,
  \* llm.js extractFacts: what the model call gave, the facts returned
  reply, facts,
  \* tools.js: the process's GOOGLE_AGENT_V2 setting, the calls of buildTools made
  agentV2, built,
  \* bot.js sendLong: the text, the loop's start, the slices replied, where the call stands
  safeText, start, sent, sendPc,
  \* poller.js: the stored last_status of a health check, the checks made and what each sent
  last_status, probes,
  \* webhook.js: the clock in minutes, the map _webhookRateLimits, the requests of
  \* each token in its latest minute, the latest response
  minute, _webhookRateLimits, posts, lastPost,
  \* database.js checkAndIncrementRateLimit: the limit, the clock in hours, the
  \* rate_limits documents of one user, the calls in flight, the messages that
  \* came, those that passed per window, those passed by a failed transaction
  limitPerHour, hour, rateDoc, checkers, arrived, passed, passedOpen,
  \* bot.js, the text handler around one run: where it is, what it has sent to
  \* the chat, the memories saved, whether extractFacts was called, console.error
  chatPc, outbox, memory, factsAsked, logged,
  \* poller.js tickReminders: the due reminders stored, the runs of the tick, how
  \* often each reminder's message was delivered, how often its send failed
  stored, ticks, sends, failed,
  \* bot.js, the text handler: the message list it passes to chatWithTools
  promptMessages,
  \* capabilities/cron (async): the cron_jobs document of one job name, the map
  \* _activeTasks at the job's id, the node-cron tasks that are scheduled and not
  \* stopped, the calls of addJob and removeJob in flight, and whether removeJob
  \* has returned true with no addJob called since
  cronDoc, _activeTasks, running, adds, removes, removedTrue

callerVars == <<isAdmin, hasGoogleAuth, routerEnabled, messages, toolDefs>>
flagVars ==
  <<groundingNudgeUsed, capabilityPreflightAttempts, activePlan, externalToolCalls,
    verificationPassDone, capabilityCorrectionUsed, googleCapabilitiesChecked>>
listVars == <<current, round, msg, tcIdx>>
ctlVars == <<pc, req, attempt, delayMs, result, toolCompletions, plainCompletions>>
envVars == <<deviated, usedVaried, maxCalls>>
botVars == <<handlers, activeRequests, cancelReply>>

runVars ==
  <<isAdmin, hasGoogleAuth, routerEnabled, messages, toolDefs, aborted,
    current, round, groundingNudgeUsed, capabilityPreflightAttempts, activePlan,
    externalToolCalls, verificationPassDone, capabilityCorrectionUsed,
    googleCapabilitiesChecked, routedModel, msg, tcIdx,
    pc, req, attempt, delayMs, result,
    toolCompletions, plainCompletions, dispatched, answered,
    deviated, usedVaried, maxCalls>>

fileVars == <<fs, fileCall, fileOutcome>>

\* what the actions of one component leave alone
historyVars == <<memories, histPc, summarized, historyMessages>>
factVars == <<reply, facts>>

registryVars == <<agentV2, built>>

sendVars == <<safeText, start, sent, sendPc>>

pollerVars == <<last_status, probes>>

webhookVars == <<minute, _webhookRateLimits, posts, lastPost>>

rateVars == <<limitPerHour, hour, rateDoc, checkers, arrived, passed, passedOpen>>

chatVars == <<chatPc, outbox, memory, factsAsked, logged>>

reminderVars == <<stored, ticks, sends, failed>>

promptVars == <<promptMessages>>

cronVars == <<cronDoc, _activeTasks, running, adds, removes, removedTrue>>

besideRun == <<botVars, fileVars, historyVars, factVars, registryVars, sendVars, pollerVars, webhookVars, rateVars, chatVars, reminderVars, promptVars, cronVars>>
besideBot == <<runVars, fileVars, historyVars, factVars, registryVars, sendVars, pollerVars, webhookVars, rateVars, chatVars, reminderVars, promptVars, cronVars>>
besideFiles == <<runVars, botVars, historyVars, factVars, registryVars, sendVars, pollerVars, webhookVars, rateVars, chatVars, reminderVars, promptVars, cronVars>>
besideHistory == <<runVars, botVars, fileVars, factVars, registryVars, sendVars, pollerVars, webhookVars, rateVars, chatVars, reminderVars, promptVars, cronVars>>
besideFacts == <<runVars, botVars, fileVars, historyVars, registryVars, sendVars, pollerVars, webhookVars, rateVars, chatVars, reminderVars, promptVars, cronVars>>

besideRegistry == <<runVars, botVars, fileVars, historyVars, factVars, sendVars, pollerVars, webhookVars, rateVars, chatVars, reminderVars, promptVars, cronVars>>

besideSend == <<runVars, botVars, fileVars, historyVars, factVars, registryVars, pollerVars, webhookVars, rateVars, chatVars, reminderVars, promptVars, cronVars>>

besidePoller == <<runVars, botVars, fileVars, historyVars, factVars, registryVars, sendVars, webhookVars, rateVars, chatVars, reminderVars, promptVars, cronVars>>

besideWebhook == <<runVars, botVars, fileVars, historyVars, factVars, registryVars, sendVars, pollerVars, rateVars, chatVars, reminderVars, promptVars, cronVars>>

besideRate == <<runVars, botVars, fileVars, historyVars, factVars, registryVars, sendVars, pollerVars, webhookVars, chatVars, reminderVars, promptVars, cronVars>>

besideChat == <<runVars, botVars, fileVars, historyVars, factVars, registryVars, sendVars, pollerVars, webhookVars, rateVars, reminderVars, promptVars, cronVars>>

besideReminder == <<runVars, botVars, fileVars, historyVars, factVars, registryVars, sendVars, pollerVars, webhookVars, rateVars, chatVars, promptVars, cronVars>>

besidePrompt == <<runVars, botVars, fileVars, historyVars, factVars, registryVars, sendVars, pollerVars, webhookVars, rateVars, chatVars, reminderVars, cronVars>>

besideCron == <<runVars, botVars, fileVars, historyVars, factVars, registryVars, sendVars, pollerVars, webhookVars, rateVars, chatVars, reminderVars, promptVars>>

vars == <<runVars, botVars, fileVars, historyVars, factVars, registryVars, sendVars, pollerVars, webhookVars, rateVars, chatVars, reminderVars, promptVars, cronVars>>

\* values computed once at entry from arguments that are never assigned again
toolNames == _getToolNames(toolDefs)
initialUserText == _getLastUserText(messages)
shouldForceToolGrounding == _shouldForceToolGrounding(initialUserText, toolNames)
isGoogleCapabilityRequest == isGoogleCapabilityRequestOf(initialUserText)

NoPlan == [set |-> FALSE, steps |-> <<>>]
PlanOf(steps) == [set |-> TRUE, steps |-> steps]

NoReq == [site |-> "none", tools |-> FALSE, model |-> MODEL, messages |-> <<>>]
NoResult == [kind |-> "none", text |-> <<>>, err |-> NoErr]
NoResponse == Response(<<>>, NoCalls)

NoAnswer == [site |-> "none", text |-> <<>>]

\* the callers explored: (admin, hasGoogleAuth, router, user text, tools passed)
PlainCaller == <<FALSE, FALSE, FALSE, <<"hello">>, TRUE>>

Callers ==
  { PlainCaller,
    <<TRUE, TRUE, TRUE, <<"remind", "me", "then", "call">>, TRUE>>,
    <<FALSE, FALSE, FALSE, <<"hello">>, FALSE>> }

\* bot.js: the users, the text handlers in order of arrival
Users == {"u1", "u2"}
Handlers == 1..MaxMessages
NoUser == "none"
NoController == 0
IdleHandler == [user |-> NoUser, pc |-> "idle", aborted |-> FALSE, outcome |-> "none"]

\* no message has arrived, activeRequests = new Map()
BotIdle ==
  /\ handlers = [h \in Handlers |-> IdleHandler]
  /\ activeRequests = [u \in Users |-> NoController]
  /\ cancelReply = [u \in Users |-> "none"]

\* the arguments of the call
\* a node of the filesystem: a directory, a file, or a symbolic link and its target
Dir == [kind |-> "dir", target |-> <<>>]
File == [kind |-> "file", target |-> <<>>]
Link(target) == [kind |-> "link", target |-> target]

\* no file tool has been called
NoFileCall == [tool |-> "none", path |-> [lead |-> FALSE, segs |-> <<>>]]
NoOutcome == [kind |-> "none", safe |-> <<>>, real |-> <<>>]

FilesIdle ==
  /\ fs = [p \in {} |-> Dir]
  /\ fileCall = NoFileCall
  /\ fileOutcome = NoOutcome

\* buildMessageHistory has not been called on any rows
HistoryIdle ==
  /\ memories = <<>>
  /\ histPc = "idle"
  /\ summarized = <<>>
  /\ historyMessages = <<>>

\* extractFacts has not been called
NoReply == [kind |-> "none", fenced |-> "", items |-> <<>>]
NoFacts == [kind |-> "none", items |-> <<>>]
FactsIdle ==
  /\ reply = NoReply
  /\ facts = NoFacts

\* the process runs without a GOOGLE_AGENT_V2 setting, buildTools was not called
NoSetting == "unset"
RegistryIdle ==
  /\ agentV2 = NoSetting
  /\ built = <<>>

\* sendLong has not been called
NoText == <<>>
SendIdle ==
  /\ safeText = NoText
  /\ start = 0
  /\ sent = <<>>
  /\ sendPc = "idle"

\* the health check was added and never run: the document has no last_status
Null == [null |-> TRUE, value |-> 0]
Stored(value) == [null |-> FALSE, value |-> value]
PollerIdle ==
  /\ last_status = Null
  /\ probes = <<>>

\* the server has started and no request has come: _webhookRateLimits = new Map()
Tokens == {"t1", "t2"}
NoEntry == [count |-> 0, windowStart |-> -1]
NoPosts == [minute |-> -1, requests |-> 0, accepted |-> 0]
NoPost == [token |-> "none", status |-> 0, delivered |-> FALSE]
WebhookIdle ==
  /\ minute = 0
  /\ _webhookRateLimits = [t \in Tokens |-> NoEntry]
  /\ posts = [t \in Tokens |-> NoPosts]
  /\ lastPost = NoPost

\* no message of the user has been checked: no rate_limits document exists
Hours == 0..1
Absent == 0
MaxConcurrent == 3
Checkers == 1..MaxConcurrent
IdleChecker == [pc |-> "idle", windowStart |-> 0, seen |-> Absent]
RateIdle ==
  /\ limitPerHour = 0
  /\ hour = 0
  /\ rateDoc = [w \in Hours |-> Absent]
  /\ checkers = [c \in Checkers |-> IdleChecker]
  /\ arrived = 0
  /\ passed = [w \in Hours |-> 0]
  /\ passedOpen = [w \in Hours |-> 0]

\* no text handler has reached its model run
ChatIdle ==
  /\ chatPc = "none"
  /\ outbox = <<>>
  /\ memory = <<>>
  /\ factsAsked = FALSE
  /\ logged = <<>>

\* the pollers have not started: the due reminders are stored, nothing was sent
MaxReminders == 2
MaxTicks == 3
ReminderIds == 1..MaxReminders
Ticks == 1..MaxTicks
IdleTick == [pc |-> "idle", due |-> <<>>, sendOk |-> FALSE]
ReminderIdle ==
  /\ stored = ReminderIds
  /\ ticks = [t \in Ticks |-> IdleTick]
  /\ sends = [r \in ReminderIds |-> 0]
  /\ failed = [r \in ReminderIds |-> 0]

\* the handler has not built its message list
PromptIdle == promptMessages = <<>>

\* initCron has run with no stored job: no task, no call in flight
MaxAdds == 2
MaxRemoves == 2
AddCalls == 1..MaxAdds
RemoveCalls == 1..MaxRemoves
NoTask == 0
CronIdle ==
  /\ cronDoc = FALSE
  /\ _activeTasks = NoTask
  /\ running = {}
  /\ adds = [c \in AddCalls |-> "idle"]
  /\ removes = [c \in RemoveCalls |-> "idle"]
  /\ removedTrue = FALSE

\* nothing but chatWithTools is in use
OthersIdle == BotIdle /\ FilesIdle /\ HistoryIdle /\ FactsIdle /\ RegistryIdle /\ SendIdle /\ PollerIdle /\ WebhookIdle /\ RateIdle /\ ChatIdle /\ ReminderIdle /\ PromptIdle /\ CronIdle

CallOf(c) ==
  /\ isAdmin = c[1]
  /\ hasGoogleAuth = c[2]
  /\ routerEnabled = c[3]
  /\ messages = <<SystemMsg, Msg("user", c[4])>>
  /\ toolDefs = IF c[5] THEN definitions(c[1], c[2], GOOGLE_AGENT_V2_ENABLED(NoSetting)) ELSE <<>>

\* the call has not run a statement yet
CallStartsWith(calls) ==
  /\ maxCalls = calls
  /\ aborted = FALSE
  /\ current = <<>>
  /\ round = 0
  /\ groundingNudgeUsed = FALSE
  /\ capabilityPreflightAttempts = 0
  /\ activePlan = NoPlan
  /\ externalToolCalls = 0
  /\ verificationPassDone = FALSE
  /\ capabilityCorrectionUsed = FALSE
  /\ googleCapabilitiesChecked = FALSE
  /\ routedModel = MODEL
  /\ msg = NoResponse
  /\ tcIdx = 0
  /\ pc = "entry"
  /\ req = NoReq
  /\ attempt = 0
  /\ delayMs = 0
  /\ result = NoResult
  /\ toolCompletions = 0
  /\ plainCompletions = 0
  /\ dispatched = <<>>
  /\ answered = NoAnswer
  /\ deviated = FALSE
  /\ usedVaried = FALSE

CallStarts == CallStartsWith(MaxCalls)

Init ==
  /\ \E c \in Callers : CallOf(c)
  /\ CallStarts
  /\ OthersIdle

\* ------------------------------------------------------------------------
\* Steps shared by the handlers
\* ------------------------------------------------------------------------
\* _retryCreate(params, {signal}) is called: the first attempt is in flight
Issue(site, tools, model, list) ==
  /\ pc' = "create"
  /\ req' = [site |-> site, tools |-> tools, model |-> model, messages |-> list]
  /\ attempt' = 0
  /\ delayMs' = 0
  /\ toolCompletions' = IF tools THEN toolCompletions + 1 ELSE toolCompletions
  /\ plainCompletions' = IF tools THEN plainCompletions ELSE plainCompletions + 1
  /\ UNCHANGED result

\* chat(list, {signal})
chat(site, list) == Issue(site, FALSE, _selectModel(routerEnabled, list, <<>>), list)

\* the call is over: its outcome goes to the caller, _retryCreate's frame is gone
Finish(outcome) ==
  /\ pc' = "done"
  /\ result' = outcome
  /\ req' = NoReq
  /\ attempt' = 0
  /\ delayMs' = 0
  /\ UNCHANGED <<toolCompletions, plainCompletions>>

Return(text) == Finish([kind |-> "text", text |-> text, err |-> NoErr])

Raise(err) == Finish([kind |-> "error", text |-> <<>>, err |-> err])

\* locals that no later statement reads are dropped: on return, on throw, and
\* where the only statements left are chat(messages) and a return
DropLocals ==
  /\ current' = <<>>
  /\ round' = 0
  /\ groundingNudgeUsed' = FALSE
  /\ capabilityPreflightAttempts' = 0
  /\ activePlan' = NoPlan
  /\ externalToolCalls' = 0
  /\ verificationPassDone' = FALSE
  /\ capabilityCorrectionUsed' = FALSE
  /\ googleCapabilitiesChecked' = FALSE
  /\ routedModel' = MODEL
  /\ msg' = NoResponse
  /\ tcIdx' = 0

\* a variant of the fallback that runs over the working list
WorkingList == current

\* the list the plain fallback runs over
FallbackList == messages

\* the catch block of chatWithTools
isToolError(err) == err.status = 400 \/ err.toolMsg

Catch(err) ==
  IF isToolError(err) THEN chat("fallback", FallbackList) ELSE Raise(err)

\* a variant of the loop's end that asks for the summary without the instruction
LoopNextBare(cur) ==
  /\ round' = round + 1
  /\ current' = cur
  /\ IF round + 1 < MAX_ROUNDS
     THEN Issue("round", TRUE, routedModel, cur)
     ELSE chat("summary", cur)

\* the end of the for body: round++, and the loop test
LoopNext(cur) ==
  /\ round' = round + 1
  /\ IF round + 1 < MAX_ROUNDS
     THEN /\ current' = cur
          /\ Issue("round", TRUE, routedModel, cur)
     ELSE /\ current' = Append(cur, SummariseMsg)
          /\ chat("summary", Append(cur, SummariseMsg))

\* ------------------------------------------------------------------------
\* chatWithTools: entry
\* ------------------------------------------------------------------------
Enter ==
  /\ pc = "entry"
  /\ IF toolDefs = <<>>
     THEN /\ chat("notools", messages)
          /\ UNCHANGED <<current, routedModel>>
     ELSE LET routed == _selectModel(routerEnabled, messages, toolDefs)
          IN  /\ current' = messages
              /\ routedModel' = routed
              /\ Issue("round", TRUE, routed, messages)
  /\ UNCHANGED <<besideRun, answered, callerVars, aborted, flagVars, round, msg, tcIdx, dispatched, envVars>>

\* ------------------------------------------------------------------------
\* _retryCreate: an attempt fails, the backoff timer fires
\* ------------------------------------------------------------------------
isRetryable(status) == status >= 500 \/ status = 0

\* a variant of the backoff with the same delay before every attempt
backoffDelayFlat(n) == FirstDelayMs

backoffDelay(n) == IF n = 0 THEN FirstDelayMs ELSE LaterDelayMs

\* whether _retryCreate throws the error of this attempt
Throws(err) == ~isRetryable(err.status) \/ attempt = maxRetries - 1

\* where an error thrown by _retryCreate lands: the try block of chatWithTools
\* covers the loop, the leak fallback, the verification pass and the summary
Throw(err) ==
  IF req.site \in {"notools", "fallback"} THEN Raise(err) ELSE Catch(err)

\* the outcomes of an attempt with the signal as it is
AttemptErrors == IF aborted THEN {AbortErr} ELSE ClientErrors

CreateRejects(err) ==
  /\ pc = "create"
  /\ err \in AttemptErrors
  /\ IF Throws(err)
     THEN /\ Throw(err)
          /\ DropLocals
     ELSE /\ pc' = "backoff"
          /\ delayMs' = backoffDelay(attempt)
          /\ UNCHANGED <<req, attempt, result, toolCompletions, plainCompletions>>
          /\ UNCHANGED <<flagVars, listVars, routedModel>>
  /\ UNCHANGED <<besideRun, answered, callerVars, aborted, dispatched, envVars>>

\* a variant of the backoff that does not count the attempt
BackoffRestarts ==
  /\ pc = "backoff"
  /\ pc' = "create"
  /\ UNCHANGED <<req, attempt, delayMs, result, toolCompletions, plainCompletions>>
  /\ UNCHANGED <<besideRun, answered, callerVars, aborted, flagVars, listVars, routedModel,
                 dispatched, envVars>>

BackoffElapses ==
  /\ pc = "backoff"
  /\ pc' = "create"
  /\ attempt' = attempt + 1
  /\ UNCHANGED <<req, delayMs, result, toolCompletions, plainCompletions>>
  /\ UNCHANGED <<besideRun, answered, callerVars, aborted, flagVars, listVars, routedModel, dispatched, envVars>>

\* ------------------------------------------------------------------------
\* chatWithTools: a tool-enabled completion resolves
\* ------------------------------------------------------------------------
\* a variant that verifies every candidate answer once
needsVerificationAlways == ~verificationPassDone

needsVerification ==
  /\ ~verificationPassDone
  /\ (externalToolCalls > 1 \/ (activePlan.set /\ Len(activePlan.steps) > 1))

\* a variant of the loop body whose capability correction is not one-shot
BranchRepeating(resp) ==
  LET content == trim(resp.content)
  IN  IF resp.tool_calls # NoCalls THEN "calls"
      ELSE IF _looksLikeToolCodeLeak(content) THEN "leak"
      ELSE IF ~groundingNudgeUsed /\ shouldForceToolGrounding /\ externalToolCalls = 0
           THEN "grounding"
      ELSE IF /\ isGoogleCapabilityRequest
              /\ "google_capabilities" \in toolNames
              /\ ~googleCapabilitiesChecked
              /\ capabilityPreflightAttempts < 2
           THEN "preflight"
      ELSE IF _looksLikeUnsupportedGoogleCapabilityClaim(content, toolNames)
           THEN "correction"
      ELSE IF content = <<>> /\ activePlan.set THEN "plandone"
      ELSE IF needsVerification THEN "verify"
      ELSE "answer"

\* a variant of the loop body whose capability preflight has no cap of attempts
BranchPreflightUncapped(resp) ==
  LET content == trim(resp.content)
  IN  IF resp.tool_calls # NoCalls THEN "calls"
      ELSE IF _looksLikeToolCodeLeak(content) THEN "leak"
      ELSE IF ~groundingNudgeUsed /\ shouldForceToolGrounding /\ externalToolCalls = 0
           THEN "grounding"
      ELSE IF /\ isGoogleCapabilityRequest
              /\ "google_capabilities" \in toolNames
              /\ ~googleCapabilitiesChecked
           THEN "preflight"
      ELSE IF /\ ~capabilityCorrectionUsed
              /\ _looksLikeUnsupportedGoogleCapabilityClaim(content, toolNames)
           THEN "correction"
      ELSE IF content = <<>> /\ activePlan.set THEN "plandone"
      ELSE IF needsVerification THEN "verify"
      ELSE "answer"

\* which branch of the loop body the response takes
Branch(resp) ==
  LET content == trim(resp.content)
  IN  IF resp.tool_calls # NoCalls THEN "calls"
      ELSE IF _looksLikeToolCodeLeak(content) THEN "leak"
      ELSE IF ~groundingNudgeUsed /\ shouldForceToolGrounding /\ externalToolCalls = 0
           THEN "grounding"
      ELSE IF /\ isGoogleCapabilityRequest
              /\ "google_capabilities" \in toolNames
              /\ ~googleCapabilitiesChecked
              /\ capabilityPreflightAttempts < 2
           THEN "preflight"
      ELSE IF /\ ~capabilityCorrectionUsed
              /\ _looksLikeUnsupportedGoogleCapabilityClaim(content, toolNames)
           THEN "correction"
      ELSE IF content = <<>> /\ activePlan.set THEN "plandone"
      ELSE IF needsVerification THEN "verify"
      ELSE "answer"

GuardMsg(branch) ==
  CASE branch = "grounding" -> GroundingNudge
    [] branch = "preflight" -> PreflightNudge
    [] branch = "correction" -> CapabilityCorrection

\* the responses the model may give now: the routine one until it first answers
\* otherwise, then final answers and, once, a response of the varied tool calls
mayDeviate == deviated \/ round = 0 \/ round >= MAX_ROUNDS - MaxLate

\* for a Google capability request the model may also ask for the capabilities
CapabilityResponses ==
  IF isGoogleCapabilityRequest
  THEN {Response(<<>>, WithIds(<<Call("google_capabilities", JsonText(NoArgs))>>))}
  ELSE {}

AllowedResponses ==
  (IF deviated THEN {} ELSE {CanonicalResponse})
  \cup (IF mayDeviate THEN FinalResponses ELSE {})
  \cup (IF mayDeviate /\ ~usedVaried
          THEN {r \in VariedResponses : Len(r.tool_calls) <= maxCalls}
                 \cup CapabilityResponses
          ELSE {})

RoundAnswer(resp) ==
  /\ pc = "create"
  /\ req.site = "round"
  /\ ~aborted
  /\ resp \in AllowedResponses
  /\ deviated' = (deviated \/ resp # CanonicalResponse)
  /\ usedVaried' = (usedVaried \/ resp \in VariedResponses \cup CapabilityResponses)
  /\ UNCHANGED maxCalls
  /\ LET branch == Branch(resp)
         content == trim(resp.content)
     IN  CASE branch = "calls" ->
                /\ current' = Append(current, AssistantMsg(resp))
                /\ msg' = resp
                /\ tcIdx' = 1
                /\ pc' = "tools"
                /\ UNCHANGED <<round, req, attempt, delayMs, result,
                               toolCompletions, plainCompletions>>
                /\ UNCHANGED <<flagVars, routedModel>>
           [] branch = "leak" ->
                /\ chat("leak", messages)
                /\ DropLocals
           [] branch \in {"grounding", "preflight", "correction"} ->
                /\ groundingNudgeUsed' = (groundingNudgeUsed \/ branch = "grounding")
                /\ capabilityPreflightAttempts' =
                     IF branch = "preflight" THEN capabilityPreflightAttempts + 1
                     ELSE capabilityPreflightAttempts
                /\ capabilityCorrectionUsed' =
                     (capabilityCorrectionUsed \/ branch = "correction")
                /\ LoopNext(current \o <<AssistantMsg(resp), GuardMsg(branch)>>)
                /\ UNCHANGED <<activePlan, externalToolCalls, verificationPassDone,
                               googleCapabilitiesChecked, routedModel, msg, tcIdx>>
           [] branch = "plandone" ->
                /\ Return(PlanDone)
                /\ DropLocals
           [] branch = "verify" ->
                /\ verificationPassDone' = TRUE
                /\ msg' = resp
                /\ chat("verify", current \o <<AssistantMsg(resp), verifyPrompt>>)
                /\ UNCHANGED <<current, round, tcIdx, groundingNudgeUsed,
                               capabilityPreflightAttempts, activePlan, externalToolCalls,
                               capabilityCorrectionUsed, googleCapabilitiesChecked,
                               routedModel>>
           [] branch = "answer" ->
                /\ Return(content)
                /\ DropLocals
  /\ UNCHANGED <<besideRun, answered, callerVars, aborted, dispatched>>

\* ------------------------------------------------------------------------
\* chat, _runVerificationPass: a completion without tools resolves
\* ------------------------------------------------------------------------
PlainAnswer(text) ==
  /\ pc = "create"
  /\ req.site \in {"notools", "leak", "verify", "summary", "fallback"}
  /\ ~aborted
  /\ text \in PlainTexts
  /\ LET answer == trim(text)
     IN  IF req.site = "verify" /\ answer = <<>>
         THEN Return(trim(msg.content))
         ELSE Return(answer)
  /\ DropLocals
  /\ answered' = [site |-> req.site, text |-> text]
  /\ UNCHANGED <<besideRun, callerVars, aborted, dispatched, envVars>>

\* ------------------------------------------------------------------------
\* chatWithTools: the tool calls of a response, one after the other
\* ------------------------------------------------------------------------
truthy(v) == v.kind = "number" \/ (v.kind = "string" /\ v.text # <<>>)

\* a variant of the loop body in which reflect never ends the run
HandleNoReturn(tc) ==
  IF ~tc.arguments.json
    THEN [kind |-> "result", text |-> ToolError(<<"Unexpected token in JSON">>)]
  ELSE IF tc.name = "think" THEN [kind |-> "result", text |-> ThoughtNoted]
  ELSE IF tc.name = "plan" THEN [kind |-> "plan", text |-> PlanSet(tc.arguments.obj.steps)]
  ELSE IF tc.name = "reflect" THEN [kind |-> "result", text |-> ReflectionComplete]
  ELSE [kind |-> "dispatch", text |-> <<>>]

\* what the body of the for loop does with a call before any await
\* a variant of the loop body that hands think to the executor
HandleThinkDispatched(tc) ==
  LET args == tc.arguments.obj
      toolName == tc.name
  IN  IF ~tc.arguments.json
        THEN [kind |-> "result", text |-> ToolError(<<"Unexpected token in JSON">>)]
      ELSE IF toolName = "plan" THEN [kind |-> "plan", text |-> PlanSet(args.steps)]
      ELSE IF toolName = "reflect"
        THEN IF truthy(args.revised_answer) /\ args.revised_answer # StringText(<<"null">>)
             THEN IF args.revised_answer.kind = "string"
                  THEN [kind |-> "return", text |-> trim(args.revised_answer.text)]
                  ELSE [kind |-> "result",
                        text |-> ToolError(<<"args.revised_answer.trim is not a function">>)]
             ELSE [kind |-> "result", text |-> ReflectionComplete]
      ELSE [kind |-> "dispatch", text |-> <<>>]

Handle(tc) ==
  LET args == tc.arguments.obj
      toolName == tc.name
  IN  IF ~tc.arguments.json
        THEN [kind |-> "result", text |-> ToolError(<<"Unexpected token in JSON">>)]
      ELSE IF toolName = "think" THEN [kind |-> "result", text |-> ThoughtNoted]
      ELSE IF toolName = "plan" THEN [kind |-> "plan", text |-> PlanSet(args.steps)]
      ELSE IF toolName = "reflect"
        THEN IF truthy(args.revised_answer) /\ args.revised_answer # StringText(<<"null">>)
             THEN IF args.revised_answer.kind = "string"
                  THEN [kind |-> "return", text |-> trim(args.revised_answer.text)]
                  ELSE [kind |-> "result",
                        text |-> ToolError(<<"args.revised_answer.trim is not a function">>)]
             ELSE [kind |-> "result", text |-> ReflectionComplete]
      ELSE [kind |-> "dispatch", text |-> <<>>]

\* a variant that leaves the loop over the calls after the first result
PushResultEarly(text) ==
  /\ tcIdx' = 0
  /\ LoopNext(Append(current, ToolMsg(msg.tool_calls[tcIdx].id, text)))

\* a variant that gives every result the id of the response's first call
PushResultFirstId(text) ==
  LET cur == Append(current, ToolMsg(msg.tool_calls[1].id, text))
  IN  IF tcIdx < Len(msg.tool_calls)
      THEN /\ current' = cur
           /\ tcIdx' = tcIdx + 1
           /\ pc' = "tools"
           /\ UNCHANGED <<round, req, attempt, delayMs, result,
                          toolCompletions, plainCompletions>>
      ELSE /\ tcIdx' = 0
           /\ LoopNext(cur)

\* current.push({role: 'tool', ...}) and the next iteration
PushResult(text) ==
  LET cur == Append(current, ToolMsg(msg.tool_calls[tcIdx].id, text))
  IN  IF tcIdx < Len(msg.tool_calls)
      THEN /\ current' = cur
           /\ tcIdx' = tcIdx + 1
           /\ pc' = "tools"
           /\ UNCHANGED <<round, req, attempt, delayMs, result,
                          toolCompletions, plainCompletions>>
      ELSE /\ tcIdx' = 0
           /\ LoopNext(cur)

Dispatch(tc) ==
  [name |-> tc.name, id |-> tc.id, round |-> round, afterAbort |-> aborted]

\* a variant of the loop over the calls that hands a call to the executor twice
ToolCallTwice ==
  /\ pc = "tools"
  /\ LET tc == msg.tool_calls[tcIdx]
         h == Handle(tc)
     IN  CASE h.kind \in {"result", "plan"} ->
                /\ activePlan' =
                     IF h.kind = "plan" THEN PlanOf(tc.arguments.obj.steps) ELSE activePlan
                /\ PushResult(h.text)
                /\ UNCHANGED <<groundingNudgeUsed, capabilityPreflightAttempts,
                               externalToolCalls, verificationPassDone,
                               capabilityCorrectionUsed, googleCapabilitiesChecked,
                               routedModel, msg, dispatched>>
           [] h.kind = "return" ->
                /\ Return(h.text)
                /\ DropLocals
                /\ UNCHANGED dispatched
           [] h.kind = "dispatch" ->
                /\ pc' = "exec"
                /\ dispatched' = dispatched \o <<Dispatch(tc), Dispatch(tc)>>
                /\ UNCHANGED <<req, attempt, delayMs, result, toolCompletions,
                               plainCompletions>>
                /\ UNCHANGED <<flagVars, listVars, routedModel>>
  /\ UNCHANGED <<besideRun, answered, callerVars, aborted, envVars>>

ToolCall ==
  /\ pc = "tools"
  /\ LET tc == msg.tool_calls[tcIdx]
         h == Handle(tc)
     IN  CASE h.kind \in {"result", "plan"} ->
                /\ activePlan' =
                     IF h.kind = "plan" THEN PlanOf(tc.arguments.obj.steps) ELSE activePlan
                /\ PushResult(h.text)
                /\ UNCHANGED <<groundingNudgeUsed, capabilityPreflightAttempts,
                               externalToolCalls, verificationPassDone,
                               capabilityCorrectionUsed, googleCapabilitiesChecked,
                               routedModel, msg, dispatched>>
           [] h.kind = "return" ->
                /\ Return(h.text)
                /\ DropLocals
                /\ UNCHANGED dispatched
           [] h.kind = "dispatch" ->
                /\ pc' = "exec"
                /\ dispatched' = Append(dispatched, Dispatch(tc))
                /\ UNCHANGED <<req, attempt, delayMs, result, toolCompletions,
                               plainCompletions>>
                /\ UNCHANGED <<flagVars, listVars, routedModel>>
  /\ UNCHANGED <<besideRun, answered, callerVars, aborted, envVars>>

ExecutorTexts ==
  UNION {ExecutorResults(call.name) : call \in CallAlphabet}
    \cup ExecutorResults("google_capabilities")

\* a variant of the executor's return that does not record the capability check
ExecutorReturnsUnrecorded(text) ==
  /\ pc = "exec"
  /\ LET toolName == msg.tool_calls[tcIdx].name
     IN  /\ text \in ExecutorResults(toolName)
         /\ externalToolCalls' = externalToolCalls + 1
         /\ googleCapabilitiesChecked' = googleCapabilitiesChecked
         /\ PushResult(text)
  /\ UNCHANGED <<besideRun, answered, callerVars, aborted, groundingNudgeUsed, capabilityPreflightAttempts,
                 activePlan, verificationPassDone, capabilityCorrectionUsed,
                 routedModel, msg, dispatched, envVars>>

ExecutorReturns(text) ==
  /\ pc = "exec"
  /\ LET toolName == msg.tool_calls[tcIdx].name
     IN  /\ text \in ExecutorResults(toolName)
         /\ externalToolCalls' = externalToolCalls + 1
         /\ googleCapabilitiesChecked' =
              (googleCapabilitiesChecked \/ toolName = "google_capabilities")
         /\ PushResult(text)
  /\ UNCHANGED <<besideRun, answered, callerVars, aborted, groundingNudgeUsed, capabilityPreflightAttempts,
                 activePlan, verificationPassDone, capabilityCorrectionUsed,
                 routedModel, msg, dispatched, envVars>>

ExecutorThrows(message) ==
  /\ pc = "exec"
  /\ message \in ToolFailures
  /\ PushResult(ToolError(message))
  /\ UNCHANGED <<besideRun, answered, callerVars, aborted, flagVars, routedModel, msg, dispatched, envVars>>

\* ------------------------------------------------------------------------
\* The signal is aborted while the call is suspended
\* ------------------------------------------------------------------------
Abort ==
  /\ pc \in {"create", "backoff", "exec"}
  /\ ~aborted
  /\ aborted' = TRUE
  /\ UNCHANGED <<besideRun, answered, callerVars, flagVars, listVars, routedModel, ctlVars, dispatched, envVars>>

Next ==
  \/ Enter
  \/ \E err \in ClientErrors \cup {AbortErr} : CreateRejects(err)
  \/ BackoffElapses
  \/ \E resp \in AllowedResponses : RoundAnswer(resp)
  \/ \E text \in PlainTexts : PlainAnswer(text)
  \/ ToolCall
  \/ \E text \in ExecutorTexts : ExecutorReturns(text)
  \/ \E message \in ToolFailures : ExecutorThrows(message)
  \/ Abort

Spec == Init /\ [][Next]_vars

\* ------------------------------------------------------------------------
\* bot.js: the text handler, /cancel and the map activeRequests
\* ------------------------------------------------------------------------
\* a call whose user message asks what the assistant can access in Gmail: the
\* request that all three guards of the loop apply to
CapabilityCaller == <<FALSE, FALSE, FALSE, <<"access", "gmail">>, TRUE>>

\* the most tool calls in one response of the model in these runs
GuardCalls == 1

GuardInit ==
  /\ CallOf(CapabilityCaller)
  /\ CallStartsWith(GuardCalls)
  /\ OthersIdle

GuardSpec == GuardInit /\ [][Next]_vars

BotInit ==
  /\ CallOf(PlainCaller)
  /\ CallStarts
  /\ OthersIdle

\* bot.on('text'): a message of user u arrives, the handler awaits the rate limit
TextArrives(h, u) ==
  /\ handlers[h].pc = "idle"
  /\ \A g \in Handlers : g < h => handlers[g].pc # "idle"
  /\ handlers' = [handlers EXCEPT ![h] = [@ EXCEPT !.user = u, !.pc = "ratecheck"]]
  /\ UNCHANGED <<activeRequests, cancelReply, besideBot>>

\* the rate limit is reached: the handler replies and returns
RateLimited(h) ==
  /\ handlers[h].pc = "ratecheck"
  /\ handlers' = [handlers EXCEPT ![h] = [@ EXCEPT !.pc = "returned", !.outcome = "limited"]]
  /\ UNCHANGED <<activeRequests, cancelReply, besideBot>>

\* the rate limit lets the message pass: new AbortController(),
\* activeRequests.set(userId, controller), and the run is in flight
RunStarts(h) ==
  /\ handlers[h].pc = "ratecheck"
  /\ handlers' = [handlers EXCEPT ![h] = [@ EXCEPT !.pc = "running"]]
  /\ activeRequests' = [activeRequests EXCEPT ![handlers[h].user] = h]
  /\ UNCHANGED <<cancelReply, besideBot>>

\* how a run may end: cancelled when its signal is aborted
Outcomes(h) == IF handlers[h].aborted THEN {"cancelled"} ELSE {"reply", "error"}

\* the run settles: finally (or catch) does activeRequests.delete(userId)
RunEnds(h, outcome) ==
  /\ handlers[h].pc = "running"
  /\ outcome \in Outcomes(h)
  /\ handlers' = [handlers EXCEPT ![h] = [@ EXCEPT !.pc = "returned", !.outcome = outcome]]
  /\ activeRequests' = [activeRequests EXCEPT ![handlers[h].user] = NoController]
  /\ UNCHANGED <<cancelReply, besideBot>>

\* bot.command('cancel')
Cancel(u) ==
  LET controller == activeRequests[u]
  IN  /\ IF controller # NoController
         THEN /\ handlers' = [handlers EXCEPT ![controller] = [@ EXCEPT !.aborted = TRUE]]
              /\ activeRequests' = [activeRequests EXCEPT ![u] = NoController]
              /\ cancelReply' = [cancelReply EXCEPT ![u] = "Cancelled the current request."]
         ELSE /\ cancelReply' = [cancelReply EXCEPT ![u] = "Nothing to cancel"]
              /\ UNCHANGED <<handlers, activeRequests>>
      /\ UNCHANGED besideBot

BotNext ==
  \/ \E h \in Handlers : \E u \in Users : TextArrives(h, u)
  \/ \E h \in Handlers : RateLimited(h)
  \/ \E h \in Handlers : RunStarts(h)
  \/ \E h \in Handlers : \E outcome \in {"reply", "error", "cancelled"} : RunEnds(h, outcome)
  \/ \E u \in Users : Cancel(u)

BotSpec == BotInit /\ [][BotNext]_vars

\* ------------------------------------------------------------------------
\* Properties
\* ------------------------------------------------------------------------
Last(seq) == seq[Len(seq)]
IsPrefix(a, b) == Len(a) <= Len(b) /\ SubSeq(b, 1, Len(a)) = a
TextResult(text) == [kind |-> "text", text |-> text, err |-> NoErr]
ErrorResult(err) == [kind |-> "error", text |-> <<>>, err |-> err]
SameCompletions ==
  /\ toolCompletions' = toolCompletions
  /\ plainCompletions' = plainCompletions

\* the sites of a completion that the try block of chatWithTools covers
TrySites == {"round", "leak", "verify", "summary"}

\* a measure of what a run has left to do: rounds, calls of the response, attempts
C1_AttemptRank == 2 * (maxRetries - attempt) - (IF pc = "backoff" THEN 1 ELSE 0)
C1_CallRank == 2 * (Len(msg.tool_calls) - tcIdx + 1) - (IF pc = "exec" THEN 1 ELSE 0)
C1_RoundWidth == 2 * maxRetries + 2 * MaxCalls + 1

C1_Rank ==
  IF pc = "done" THEN 0
  ELSE IF pc = "entry" THEN 4 * maxRetries + MAX_ROUNDS * C1_RoundWidth + 1
  ELSE IF req.site \in {"fallback", "notools"} THEN C1_AttemptRank
  ELSE IF req.site \in {"leak", "verify", "summary"} THEN 2 * maxRetries + C1_AttemptRank
  ELSE 4 * maxRetries + (MAX_ROUNDS - 1 - round) * C1_RoundWidth
         + (IF pc \in {"tools", "exec"} THEN C1_CallRank ELSE 2 * MaxCalls + C1_AttemptRank)

C1_Measure == 2 * C1_Rank + (IF aborted THEN 0 ELSE 1)

\* steps by which what the run awaits settles, or by which its next statement runs
C1_Step ==
  \/ Enter
  \/ BackoffElapses
  \/ ToolCall
  \/ \E message \in ToolFailures : ExecutorThrows(message)
  \/ \E err \in AttemptErrors : CreateRejects(err)

\* C1: every run of chatWithTools reaches a terminal outcome (a text or an error)
\* after finitely many steps whatever the model answers, also when every response
\* asks for a tool call, given that each model call and each tool execution
\* returns: every step lowers a measure that is a natural number, a step is
\* possible in every state that is not terminal, and a terminal state holds an
\* outcome; and each tool-enabled completion after the first is issued with
\* round one greater.
C1_Terminates ==
  /\ [](C1_Measure \in Nat)
  /\ [][C1_Measure' < C1_Measure]_vars
  /\ [](pc # "done" => ENABLED C1_Step)
  /\ [](pc = "done" <=> result.kind \in {"text", "error"})
  /\ [][toolCompletions' # toolCompletions =>
          \/ pc = "entry" /\ round' = 0
          \/ round' = round + 1]_vars

\* a run in which all 12 responses asked for a tool call has ended with a text
C1_Witness ==
  /\ pc = "done"
  /\ toolCompletions = MAX_ROUNDS
  /\ ~deviated
  /\ result.kind = "text"

\* C2: a run issues at most 12 tool-enabled completions; when the 12th round ends
\* without ending the run, the user-role summarise instruction is appended to the
\* working list, exactly one completion without tools is issued over that list,
\* and its (trimmed) text is what the run returns.
C2_SummaryAfterTwelve ==
  /\ [](toolCompletions <= MAX_ROUNDS)
  /\ [](req.site = "summary" =>
          /\ toolCompletions = MAX_ROUNDS
          /\ plainCompletions = 1
          /\ ~req.tools
          /\ req.messages = current
          /\ Last(current) = SummariseMsg
          /\ Last(current).role = "user")
  /\ [](answered.site = "summary" =>
          /\ pc = "done"
          /\ plainCompletions = 1
          /\ result = TextResult(trim(answered.text)))
  /\ [][(pc \in {"create", "tools", "exec"} /\ round = MAX_ROUNDS - 1 /\ round' = MAX_ROUNDS) =>
          /\ req'.site = "summary"
          /\ pc' = "create"
          /\ IsPrefix(current, current')]_vars

\* the summary of a run of 12 rounds of tool calls has been returned
C2_Witness ==
  /\ pc = "done"
  /\ answered.site = "summary"
  /\ toolCompletions = MAX_ROUNDS
  /\ result.kind = "text"

\* C3: for a caller without the admin flag, every name passed to the executor is a
\* name of the caller's declared tools, and no admin-only tool is executed.
C3_NoAdminToolForNonAdmin ==
  ~isAdmin =>
    \A i \in DOMAIN dispatched :
      /\ dispatched[i].name \in toolNames
      /\ ~(dispatched[i].name \in Range(ADMIN_KEYS) /\ dispatched[i].name \in ExecutorCases)

\* the steps in which a tool call fails
C4_Failing ==
  \/ \E message \in ToolFailures : ExecutorThrows(message)
  \/ (ToolCall /\ ~msg.tool_calls[tcIdx].arguments.json)

\* C4: when the arguments of a tool call do not decode, or the executor throws,
\* one tool-role message that starts with "Tool error:" and carries the call's id
\* is appended, no outcome is raised, and the next call of the response (or the
\* next round) follows.
C4_ToolErrorContinues ==
  [][C4_Failing =>
       LET tc == msg.tool_calls[tcIdx]
           n == Len(current)
       IN  /\ IsPrefix(current, current')
           /\ Len(current') > n
           /\ current'[n + 1].role = "tool"
           /\ current'[n + 1].tool_call_id = tc.id
           /\ Head(current'[n + 1].content) = "Tool error:"
           /\ \A i \in (n + 2)..Len(current') : current'[i].role # "tool"
           /\ result' = NoResult
           /\ IF tcIdx < Len(msg.tool_calls)
              THEN pc' = "tools" /\ tcIdx' = tcIdx + 1 /\ msg' = msg /\ round' = round
              ELSE pc' = "create" /\ round' = round + 1 /\ req'.messages = current']_vars

\* a failed first call of a response was answered with the marker and the second
\* call of the same response went to the executor
C4_Witness ==
  /\ pc = "exec"
  /\ tcIdx = 2
  /\ Last(current).role = "tool"
  /\ Last(current).tool_call_id = 1
  /\ Head(Last(current).content) = "Tool error:"

\* a reflect call that revises the answer
C5_Revises(tc) ==
  /\ tc.name = "reflect"
  /\ tc.arguments.json
  /\ tc.arguments.obj.revised_answer.kind = "string"
  /\ tc.arguments.obj.revised_answer.text # <<>>
  /\ tc.arguments.obj.revised_answer.text # <<"null">>

\* C5: when a response holds a reflect call whose revised_answer is a non-empty
\* text other than "null", the run returns that text trimmed in the same round,
\* with no model completion issued after the response.
C5_ReflectReturns ==
  [][(pc \in {"tools", "exec"} /\ \E j \in tcIdx..Len(msg.tool_calls) : C5_Revises(msg.tool_calls[j])) =>
       LET first == CHOOSE j \in tcIdx..Len(msg.tool_calls) :
                      /\ C5_Revises(msg.tool_calls[j])
                      /\ \A k \in tcIdx..(j - 1) : ~C5_Revises(msg.tool_calls[k])
       IN  /\ SameCompletions
           /\ \/ /\ pc' \in {"tools", "exec"}
                 /\ msg' = msg
                 /\ tcIdx' \in tcIdx..first
                 /\ round' = round
              \/ /\ pc = "tools"
                 /\ tcIdx = first
                 /\ pc' = "done"
                 /\ result' =
                      TextResult(trim(msg.tool_calls[first].arguments.obj.revised_answer.text))]_vars

\* a reflect call that followed an executed tool call has ended the run with its text
C5_Witness ==
  /\ pc = "done"
  /\ result = TextResult(<<"revised">>)
  /\ dispatched # <<>>

\* C6: when a completion inside the try block fails with status 400 and a message
\* that matches /tool|function/i, the run issues one completion without tools over
\* the list the caller passed, raises nothing, and returns that completion's text.
C6_PlainFallback ==
  /\ [][\A err \in ClientErrors :
          (CreateRejects(err) /\ err.status = 400 /\ err.toolMsg /\ req.site \in TrySites) =>
            /\ pc' = "create"
            /\ req'.site = "fallback"
            /\ ~req'.tools
            /\ req'.messages = messages
            /\ messages' = messages
            /\ plainCompletions' = plainCompletions + 1
            /\ result' = NoResult]_vars
  /\ [](answered.site = "fallback" =>
          /\ pc = "done"
          /\ result = TextResult(trim(answered.text)))

\* the fallback has answered after the working list had grown by a round of tools
C6_Witness ==
  /\ pc = "done"
  /\ answered.site = "fallback"
  /\ toolCompletions > 1
  /\ result.kind = "text"

\* C7: a failure of the model client that _retryCreate throws and that is not a
\* 400 with a message about tools or functions is raised to the caller as it is.
C7_OtherErrorsPropagate ==
  [][\A err \in ClientErrors :
       (/\ CreateRejects(err)
        /\ Throws(err)
        /\ ~(err.status = 400 /\ err.toolMsg)
        /\ req.site \in TrySites) =>
         /\ pc' = "done"
         /\ result' = ErrorResult(err)]_vars

\* C8: when the signal is aborted during a completion, the rejection of the attempt
\* ends the call at once: no backoff, no further attempt, the abort error raised.
C8_AbortStopsRetries ==
  [][(aborted /\ CreateRejects(AbortErr)) =>
       /\ pc' = "done"
       /\ result' = ErrorResult(AbortErr)]_vars

\* a run of user u between activeRequests.set and the end of chatWithTools
C9_InFlight(h, u) == handlers[h].user = u /\ handlers[h].pc = "running"

\* C9: while a run of a user is in flight, /cancel of that user aborts the signal
\* of a run of that user in flight, also when the user has two runs in flight and
\* whichever of them ended first.
C9_CancelAbortsRunInFlight ==
  [][\A u \in Users :
       (Cancel(u) /\ \E h \in Handlers : C9_InFlight(h, u)) =>
         \E h \in Handlers : C9_InFlight(h, u) /\ handlers'[h].aborted]_vars

\* C10: no tool call is passed to the executor once the signal is aborted.
C10_NoDispatchAfterAbort ==
  \A i \in DOMAIN dispatched : ~dispatched[i].afterAbort


\* in a list, every assistant message with tool calls is followed by the results
\* of its calls, one for each call and in the order of the calls
C11_Settled(list) ==
  \A i \in DOMAIN list :
    (list[i].role = "assistant" /\ list[i].tool_calls # NoCalls) =>
      LET calls == list[i].tool_calls
      IN  /\ i + Len(calls) <= Len(list)
          /\ \A k \in DOMAIN calls :
               /\ list[i + k].role = "tool"
               /\ list[i + k].tool_call_id = calls[k].id

\* C11: within a run, a completion is only issued over a list in which every
\* earlier tool call has its result; while call k of a response is handled or
\* executed, exactly the results of calls 1..k-1 follow the response in the
\* working list, no completion is in flight, and the executor holds call k alone;
\* the calls reach the executor in the order of the rounds and, within a response,
\* in the order in which the model listed them.
C11_Sequential ==
  /\ pc \in {"create", "backoff"} => C11_Settled(req.messages)
  /\ pc \in {"tools", "exec"} =>
       LET a == Len(current) - (tcIdx - 1)
       IN  /\ a >= 1
           /\ tcIdx \in DOMAIN msg.tool_calls
           /\ current[a] = AssistantMsg(msg)
           /\ C11_Settled(SubSeq(current, 1, a - 1))
           /\ \A k \in 1..(tcIdx - 1) :
                /\ current[a + k].role = "tool"
                /\ current[a + k].tool_call_id = msg.tool_calls[k].id
  /\ pc = "exec" =>
       /\ dispatched # <<>>
       /\ Last(dispatched).id = msg.tool_calls[tcIdx].id
       /\ Last(dispatched).name = msg.tool_calls[tcIdx].name
       /\ Last(dispatched).round = round
  /\ \A i \in DOMAIN dispatched : \A j \in DOMAIN dispatched :
       i < j =>
         \/ dispatched[i].round < dispatched[j].round
         \/ /\ dispatched[i].round = dispatched[j].round
            /\ dispatched[i].id < dispatched[j].id

\* the second call of a response is with the executor after the first one ended
C11_Witness ==
  /\ pc = "exec"
  /\ tcIdx = 2
  /\ Len(dispatched) = 2
  /\ Len(current) >= 2
  /\ Last(current).role = "tool"
  /\ Last(current).tool_call_id = 1


\* ------------------------------------------------------------------------
\* tools.js: the per-user sandbox of the file tools (getSafePath) and the
\* file capabilities it guards, over a filesystem with symbolic links
\* ------------------------------------------------------------------------
\* A path is a sequence of segments counted from "/"; an argument of a tool is
\* a path text: leading slashes or none, then segments.
MaxSegs == 4
Names == {"..", "notes", "todo.txt", "etc", "passwd", "link"}
InputPaths == [lead : BOOLEAN, segs : UNION {[1..k -> Names] : k \in 0..MaxSegs}]

\* path.resolve(UPLOADS_DIR, String(userId))
userDir == <<"uploads", "u1">>

\* the filesystems explored: what lies outside the uploads root, a user folder
\* that does not exist yet or holds notes/todo.txt, and a symbolic link "link"
\* in the folder to a file outside, a directory outside, a name outside that
\* does not exist, or a directory inside
Layouts ==
  LET outside == (<<"etc">> :> Dir) @@ (<<"etc", "passwd">> :> File)
                   @@ (<<"uploads">> :> Dir)
      home == (userDir :> Dir) @@ (userDir \o <<"notes">> :> Dir)
                @@ (userDir \o <<"notes", "todo.txt">> :> File)
      targets == {<<"etc", "passwd">>, <<"etc">>, <<"etc", "todo.txt">>,
                  userDir \o <<"notes">>}
  IN  {outside, outside @@ home}
        \cup {outside @@ home @@ (userDir \o <<"link">> :> Link(t)) : t \in targets}

\* path.resolve / path.join: ".." removes the segment before it, "/" is its own parent
RECURSIVE normalize(_, _)
normalize(stack, segs) ==
  IF segs = <<>> THEN stack
  ELSE IF Head(segs) = ".."
    THEN normalize(IF stack = <<>> THEN <<>> ELSE SubSeq(stack, 1, Len(stack) - 1),
                   Tail(segs))
    ELSE normalize(Append(stack, Head(segs)), Tail(segs))

resolve(base, p) ==
  IF p.lead THEN normalize(<<>>, p.segs) ELSE normalize(base, p.segs)

\* path.relative(from, to) of two resolved paths: one ".." for every segment of
\* from below the common ancestor, then the rest of to
relative(from, to) ==
  LET agree(c) == c <= Len(to) /\ SubSeq(from, 1, c) = SubSeq(to, 1, c)
      common == CHOOSE c \in 0..Len(from) :
                  agree(c) /\ \A d \in (c + 1)..Len(from) : ~agree(d)
  IN  [i \in 1..(Len(from) - common) |-> ".."] \o SubSeq(to, common + 1, Len(to))

\* rel.startsWith('..') on the text of a relative path (no name of Names but
\* ".." itself begins with two dots)
startsWithDotDot(rel) == rel # <<>> /\ Head(rel) = ".."

\* The walk of the kernel along a resolved path: every symbolic link met is
\* followed. err = "" and the real location, or the error, the real location
\* reached and the segments left; dangling says that the error came from the
\* target of a link.
RECURSIVE walk(_, _, _, _)
walk(f, cur, rest, hops) ==
  IF rest = <<>> THEN [err |-> "", path |-> cur, rest |-> <<>>, dangling |-> FALSE]
  ELSE IF cur \in DOMAIN f /\ f[cur].kind = "file"
    THEN [err |-> "ENOTDIR", path |-> cur, rest |-> rest, dangling |-> FALSE]
  ELSE
    LET next == Append(cur, Head(rest))
    IN  IF next \notin DOMAIN f
          THEN [err |-> "ENOENT", path |-> cur, rest |-> rest, dangling |-> FALSE]
        ELSE IF f[next].kind = "link"
          THEN IF hops = 0
                 THEN [err |-> "ELOOP", path |-> cur, rest |-> rest, dangling |-> FALSE]
                 ELSE LET t == walk(f, <<>>, f[next].target, hops - 1)
                      IN  IF t.err # ""
                            THEN [err |-> t.err, path |-> next, rest |-> Tail(rest),
                                  dangling |-> TRUE]
                            ELSE walk(f, t.path, Tail(rest), hops - 1)
        ELSE walk(f, next, Tail(rest), hops)

\* fs.realpathSync(p): throws (err # "") when a component does not exist
realpathSync(f, p) ==
  walk(f, <<>>, p, Cardinality({q \in DOMAIN f : f[q].kind = "link"}))

Denied == [denied |-> TRUE, path |-> <<>>]
Allowed(path) == [denied |-> FALSE, path |-> path]

\* getSafePath with the lexical check alone
getSafePathLexical(f, inputPath) ==
  LET resolvedPath == resolve(userDir, [inputPath EXCEPT !.lead = FALSE])
  IN  IF startsWithDotDot(relative(userDir, resolvedPath))
        THEN Denied
        ELSE Allowed(resolvedPath)

\* getSafePath(inputPath) for a non-admin user: the lexical check, then the
\* check of the real locations, skipped when realpathSync throws
getSafePath(f, inputPath) ==
  LET relativeInput == [inputPath EXCEPT !.lead = FALSE]
      resolvedPath == resolve(userDir, relativeInput)
      relativeFromUserDir == relative(userDir, resolvedPath)
      realResolved == realpathSync(f, resolvedPath)
      realUserDir == realpathSync(f, userDir)
      realRelative == relative(realUserDir.path, realResolved.path)
  IN  IF relativeFromUserDir # <<>> /\ startsWithDotDot(relativeFromUserDir)
        THEN Denied
      ELSE IF /\ realResolved.err = ""
              /\ realUserDir.err = ""
              /\ startsWithDotDot(realRelative)
        THEN Denied
      ELSE Allowed(resolvedPath)


\* the file tools of every user (ALL_USER_KEYS)
FileTools == {"read_file", "write_file", "list_directory", "delete_file", "send_file"}

Failed(f) == [acted |-> FALSE, real |-> <<>>, fs |-> f]
Acted(real, f) == [acted |-> TRUE, real |-> real, fs |-> f]

\* readFile (statSync, readFileSync) and sendTelegramFile (readFileSync): the
\* file the path leads to, links followed
readFile(f, filePath) ==
  LET r == realpathSync(f, filePath)
  IN  IF r.err = "" /\ r.path \in DOMAIN f /\ f[r.path].kind = "file"
        THEN Acted(r.path, f)
        ELSE Failed(f)

\* listDirectory (readdirSync): the directory the path leads to
listDirectory(f, dirPath) ==
  LET r == realpathSync(f, dirPath)
  IN  IF r.err = "" /\ (r.path = <<>> \/ (r.path \in DOMAIN f /\ f[r.path].kind = "dir"))
        THEN Acted(r.path, f)
        ELSE Failed(f)

\* writeFile: mkdirSync(dirname, recursive) makes the directories that are
\* missing below the real location the dirname leads to; writeFileSync opens the
\* name there, follows a link at the name and creates what the link names when
\* only that is missing
writeFile(f, filePath) ==
  LET parent == realpathSync(f, SubSeq(filePath, 1, Len(filePath) - 1))
      made == IF parent.err = "" THEN parent.path ELSE parent.path \o parent.rest
      mkdirOk == \/ parent.err = "" /\ ~(parent.path \in DOMAIN f /\ f[parent.path].kind = "file")
                 \/ parent.err = "ENOENT" /\ ~parent.dangling
      withDirs == [p \in DOMAIN f \cup {SubSeq(made, 1, k) : k \in 1..Len(made)} |->
                     IF p \in DOMAIN f THEN f[p] ELSE Dir]
      loc == Append(made, filePath[Len(filePath)])
      isLink == loc \in DOMAIN withDirs /\ withDirs[loc].kind = "link"
      target == IF isLink THEN realpathSync(withDirs, withDirs[loc].target)
                ELSE realpathSync(withDirs, loc)
      real == IF target.err = "" THEN target.path ELSE target.path \o target.rest
      writeOk == \/ target.err = "" /\ withDirs[target.path].kind = "file"
                 \/ target.err = "ENOENT" /\ ~target.dangling /\ Len(target.rest) = 1
  IN  IF ~mkdirOk THEN Failed(f)
      ELSE IF ~writeOk THEN Failed(withDirs)
      ELSE Acted(real, [p \in DOMAIN withDirs \cup {real} |->
                          IF p = real THEN File ELSE withDirs[p]])

\* deleteFile (unlinkSync): removes the name in the directory the dirname leads
\* to; a link at the name is removed itself, not what it names
deleteFile(f, filePath) ==
  LET parent == realpathSync(f, SubSeq(filePath, 1, Len(filePath) - 1))
      loc == Append(parent.path, filePath[Len(filePath)])
  IN  IF parent.err = "" /\ loc \in DOMAIN f /\ f[loc].kind # "dir"
        THEN Acted(loc, [p \in DOMAIN f \ {loc} |-> f[p]])
        ELSE Failed(f)

capability(tool, f, filePath) ==
  CASE tool = "write_file" -> writeFile(f, filePath)
    [] tool = "list_directory" -> listDirectory(f, filePath)
    [] tool = "delete_file" -> deleteFile(f, filePath)
    [] OTHER -> readFile(f, filePath)

\* executor(toolName, args) of a non-admin user for a file tool: getSafePath,
\* then the capability on the path it returned; a denial is the result text
FileTool(tool, inputPath) ==
  /\ ~isAdmin
  /\ fileCall = NoFileCall
  /\ fileCall' = [tool |-> tool, path |-> inputPath]
  /\ LET safe == getSafePath(fs, inputPath)
         did == capability(tool, fs, safe.path)
     IN  IF safe.denied
           THEN /\ fileOutcome' = [kind |-> "denied", safe |-> <<>>, real |-> <<>>]
                /\ fs' = fs
           ELSE /\ fileOutcome' = [kind |-> IF did.acted THEN "acted" ELSE "error",
                                   safe |-> safe.path, real |-> did.real]
                /\ fs' = did.fs
  /\ UNCHANGED besideFiles

FilesInit ==
  /\ CallOf(PlainCaller)
  /\ CallStarts
  /\ BotIdle
  /\ CronIdle
  /\ PromptIdle
  /\ ReminderIdle
  /\ ChatIdle
  /\ RateIdle
  /\ WebhookIdle
  /\ PollerIdle
  /\ SendIdle
  /\ RegistryIdle
  /\ HistoryIdle
  /\ FactsIdle
  /\ fs \in Layouts
  /\ fileCall = NoFileCall
  /\ fileOutcome = NoOutcome

\* one call of a file tool on each filesystem and each argument
FilesNext ==
  /\ fileCall = NoFileCall
  /\ \E tool \in FileTools, inputPath \in InputPaths : FileTool(tool, inputPath)

FilesSpec == FilesInit /\ [][FilesNext]_vars


\* the argument names, without "..", a symbolic link inside the user's root
\* whose target exists and really lies outside the root
C12_LinkToOutside(f, segs) ==
  LET p == userDir \o segs
  IN  /\ \A i \in DOMAIN segs : segs[i] # ".."
      /\ p \in DOMAIN f
      /\ f[p].kind = "link"
      /\ realpathSync(f, p).err = ""
      /\ ~IsPrefix(userDir, realpathSync(f, p).path)

\* the argument names, without "..", a path under the root that does not exist
C12_NotYetThere(f, segs) ==
  /\ \A i \in DOMAIN segs : segs[i] # ".."
  /\ realpathSync(f, userDir \o segs).err = "ENOENT"

C12_Expected(f, given, out) ==
  /\ out.kind = "denied" \/ IsPrefix(userDir, out.safe)
  /\ given.segs = <<"..", "..", "etc", "passwd">> => out.kind = "denied"
  /\ given.segs = <<"notes", "todo.txt">> =>
       out.kind # "denied" /\ out.safe = userDir \o <<"notes", "todo.txt">>
  /\ C12_LinkToOutside(f, given.segs) => out.kind = "denied"
  /\ C12_NotYetThere(f, given.segs) =>
       out.kind # "denied" /\ out.safe = userDir \o given.segs

\* C12: for a non-admin user, getSafePath either rejects the path (access denied)
\* or returns the user's root uploads/<user_id> or a path lexically beneath it:
\* ../../etc/passwd is rejected, notes/todo.txt gives <root>/notes/todo.txt, an
\* existing symbolic link inside the root whose target lies outside the root is
\* rejected, and a path that does not exist yet is let through.
C12_SafePath ==
  [][fileCall' # NoFileCall => C12_Expected(fs, fileCall'.path, fileOutcome')]_vars

C12_Witness ==
  /\ fileCall.path.segs = <<"link">>
  /\ fileOutcome.kind = "denied"
  /\ userDir \o <<"link">> \in DOMAIN fs
  /\ fs[userDir \o <<"link">>] = Link(<<"etc", "passwd">>)


\* C13: no file tool called for a non-admin user (read_file, write_file,
\* list_directory, delete_file, send_file) acts on a filesystem object whose
\* real, symlink-resolved location is outside the user's uploads/<user_id>
\* directory, whatever files and symbolic links the root holds and whether the
\* target exists or not.
C13_NoEscape ==
  fileOutcome.kind = "acted" => IsPrefix(userDir, fileOutcome.real)


\* how often a guard message occurs in a list
Injected(list, guard) == Cardinality({i \in DOMAIN list : list[i] = guard})

\* the response is a candidate answer that matches the capability-claim heuristic
C14_Matches(resp) ==
  /\ resp.tool_calls = NoCalls
  /\ ~_looksLikeToolCodeLeak(trim(resp.content))
  /\ _looksLikeUnsupportedGoogleCapabilityClaim(trim(resp.content), toolNames)

\* a candidate answer that matches again after the correction was used is not
\* corrected again: the run returns it or starts the verification pass over it
C14_LaterMatch ==
  \A resp \in FinalResponses :
    (capabilityCorrectionUsed /\ C14_Matches(resp) /\ RoundAnswer(resp)) =>
      \/ pc' = "done" /\ result' = TextResult(trim(resp.content))
      \/ /\ pc' = "create"
         /\ req'.site = "verify"
         /\ msg' = resp
         /\ Last(req'.messages) = verifyPrompt

\* C14 as amended: the capability-claim correction is injected at most once per
\* run; when a later candidate answer matches the heuristic again, no second
\* correction is injected and the run does not loop: it ends with that answer,
\* or, when the verification pass is due, with the non-empty answer of the
\* verification pass and otherwise with that answer.
C14_CorrectionOnce ==
  [][/\ Injected(current', CapabilityCorrection) <= 1
     /\ C14_LaterMatch
     /\ \A text \in PlainTexts :
          (/\ req.site = "verify"
           /\ capabilityCorrectionUsed
           /\ C14_Matches(msg)
           /\ PlainAnswer(text)) =>
            result' = TextResult(IF trim(text) = <<>> THEN trim(msg.content)
                                 ELSE trim(text))]_vars

C14_Witness ==
  /\ pc = "create"
  /\ req.site = "verify"
  /\ capabilityCorrectionUsed
  /\ C14_Matches(msg)
  /\ Injected(current, CapabilityCorrection) = 1

\* C14 as stated: the capability-claim correction is injected at most once per
\* run; when a later candidate answer matches the heuristic again, no second
\* correction is injected and the run finishes with that answer.
C14_FinishesWithThatAnswer ==
  [][/\ Injected(current', CapabilityCorrection) <= 1
     /\ C14_LaterMatch
     /\ \A text \in PlainTexts :
          (/\ req.site = "verify"
           /\ capabilityCorrectionUsed
           /\ C14_Matches(msg)
           /\ PlainAnswer(text)) =>
            result' = TextResult(trim(msg.content))]_vars


\* the step injects the grounding nudge
C15_Nudges == Injected(current', GroundingNudge) > Injected(current, GroundingNudge)

\* C15: the grounding nudge is injected at most once per run, only when the
\* initiating user message matched the grounding heuristic, and only at a
\* candidate final answer (a response without tool calls) reached before the run
\* has dispatched any external (non-meta) tool call to the executor.
C15_GroundingNudge ==
  [][/\ Injected(current', GroundingNudge) <= 1
     /\ C15_Nudges =>
          /\ shouldForceToolGrounding
          /\ pc = "create" /\ req.site = "round"
          /\ Len(current') = Len(current) + 2
          /\ current'[Len(current) + 1].role = "assistant"
          /\ current'[Len(current) + 1].tool_calls = NoCalls
          /\ dispatched = <<>>]_vars


\* the guard messages in the working list
C16_Guards ==
  Injected(current, GroundingNudge) + Injected(current, PreflightNudge)
    + Injected(current, CapabilityCorrection)

\* C16: over one run the loop injects at most four guard messages: at most one
\* grounding nudge, at most two capability-preflight nudges and at most one
\* capability-claim correction; every injection consumes one of the 12 rounds
\* (the round counter has advanced at least once per guard message), so the run
\* never issues more than 12 completions with tools, guards or not.
C16_GuardBudget ==
  /\ Injected(current, GroundingNudge) <= 1
  /\ Injected(current, PreflightNudge) <= 2
  /\ Injected(current, CapabilityCorrection) <= 1
  /\ C16_Guards <= 4
  /\ C16_Guards <= round
  /\ round <= MAX_ROUNDS
  /\ toolCompletions <= MAX_ROUNDS
  /\ pc \in {"create", "backoff"} /\ req.site = "round" => toolCompletions = round + 1

\* all four guard messages have been injected in one run
C16_Witness ==
  /\ Injected(current, GroundingNudge) = 1
  /\ Injected(current, PreflightNudge) = 2
  /\ Injected(current, CapabilityCorrection) = 1
  /\ pc = "create"


\* the text begins, after leading whitespace, with tool_code or print(default_api.
C17_Leaks(text) ==
  \E i \in DOMAIN text :
    /\ text[i] \in {"tool_code", "print(default_api."}
    /\ \A j \in 1..(i - 1) : text[j] = WS

\* C17: a response without tool calls whose text begins, after leading
\* whitespace, with tool_code or print(default_api. is discarded: whatever the
\* guard flags and the tool results so far, the run issues one plain completion
\* over the caller's original list and returns its result.
C17_LeakFallback ==
  /\ [][\A resp \in FinalResponses :
          (C17_Leaks(resp.content) /\ RoundAnswer(resp)) =>
            /\ pc' = "create"
            /\ req'.site = "leak"
            /\ ~req'.tools
            /\ req'.messages = messages
            /\ messages' = messages
            /\ plainCompletions' = 1
            /\ toolCompletions' = toolCompletions
            /\ result' = NoResult]_vars
  /\ [](answered.site = "leak" =>
          /\ pc = "done"
          /\ plainCompletions = 1
          /\ result = TextResult(trim(answered.text)))

\* a leak after a round of external tool calls was answered by the plain completion
C17_Witness ==
  /\ pc = "done"
  /\ answered.site = "leak"
  /\ dispatched # <<>>
  /\ toolCompletions > 1
  /\ result.kind = "text"


\* _retryCreate has thrown: no attempt of this request follows; the run has ended
\* or the plain fallback of chatWithTools has begun a request of its own
C18_Thrown ==
  /\ pc' # "backoff"
  /\ attempt' = 0
  /\ pc' = "done" \/ (pc' = "create" /\ req'.site = "fallback" /\ req.site # "fallback")

\* C18: a completion is attempted at most 3 times; a further attempt is made only
\* after a failure with status >= 500 or without status, after a delay of 1 s
\* before the second attempt and of 3 s before the third; a failure with a 4xx
\* status is raised without a further attempt (after exactly one attempt when it
\* is the first failure), and the failure of the third attempt is raised.
C18_Retry ==
  /\ [](attempt \in 0..2)
  /\ [](pc = "backoff" => delayMs = IF attempt = 0 THEN 1000 ELSE 3000)
  /\ [][/\ attempt' > attempt => (pc = "backoff" /\ pc' = "create" /\ attempt' = attempt + 1
                                    /\ req' = req)
        /\ \A err \in AttemptErrors :
             CreateRejects(err) =>
               /\ pc' = "backoff" => (err.status >= 500 \/ err.status = 0) /\ attempt < 2
               /\ err.status \in 400..499 => C18_Thrown
               /\ attempt = 2 => C18_Thrown]_vars

\* the third attempt is in flight, after the delays of 1 s and 3 s
C18_Witness ==
  /\ pc = "create"
  /\ attempt = 2
  /\ delayMs = 3000


\* ------------------------------------------------------------------------
\* bot.js: buildMessageHistory(memories, signal)
\* ------------------------------------------------------------------------
RECENT_TURNS == 10
COMPRESS_THRESHOLD == 15
MaxTurns == 27

\* A stored row: its content is a prefix ("user: ", "rin: " or none) and the text
\* of the turn, here the number of the turn. The rows explored are the first n
\* turns of a conversation whose prefixes rotate from any of the three.
RowPrefixes == <<"user: ", "rin: ", "">>
Row(i, phase) == [prefix |-> RowPrefixes[((i + phase) % 3) + 1], body |-> i]
MemoryLists ==
  {[i \in 1..n |-> Row(i, phase)] : n \in 0..MaxTurns, phase \in 0..2}

\* a message of the history: a turn, or the summary with its header
Turn(role, body) == [role |-> role, header |-> FALSE, body |-> body, summary |-> ""]
SummaryMessage(summary) ==
  [role |-> "assistant", header |-> TRUE, body |-> 0, summary |-> summary]

_rowToMessage(row) ==
  IF row.prefix = "user: " THEN Turn("user", row.body)
  ELSE IF row.prefix = "rin: " THEN Turn("assistant", row.body)
  ELSE Turn("user", row.body)

map(rows) == [i \in DOMAIN rows |-> _rowToMessage(rows[i])]

\* memories.slice(0, length - RECENT_TURNS) and memories.slice(length - RECENT_TURNS)
olderRows == SubSeq(memories, 1, Len(memories) - RECENT_TURNS)
recentRows == SubSeq(memories, Len(memories) - RECENT_TURNS + 1, Len(memories))

\* a variant of the test of line 77 that never summarizes
keepsVerbatimAlways(older) == TRUE

\* a variant of the test of line 77 that also keeps 15 older turns verbatim
keepsVerbatimInclusive(older) == Len(older) <= COMPRESS_THRESHOLD

\* olderRows.length < COMPRESS_THRESHOLD
keepsVerbatim(older) == Len(older) < COMPRESS_THRESHOLD

\* what summarizeHistory resolves to: the trimmed text of the completion, which
\* may be empty, or the fixed text when the completion fails or is aborted
SummaryTexts == {"a compact paragraph", ""}
SummaryUnavailable == "[Earlier conversation compressed - summary unavailable]"

\* buildMessageHistory up to its return or to the await of summarizeHistory
BuildHistory ==
  /\ histPc = "idle"
  /\ IF Len(memories) <= RECENT_TURNS
       THEN /\ historyMessages' = map(memories)
            /\ histPc' = "done"
            /\ UNCHANGED summarized
     ELSE IF keepsVerbatim(olderRows)
       THEN /\ historyMessages' = map(olderRows) \o map(recentRows)
            /\ histPc' = "done"
            /\ UNCHANGED summarized
     ELSE /\ summarized' = Append(summarized, map(olderRows))
          /\ histPc' = "summarizing"
          /\ UNCHANGED historyMessages
  /\ UNCHANGED <<memories, besideHistory>>

\* summarizeHistory resolves (it never rejects) and the history is returned
Summarized(summary) ==
  /\ histPc = "summarizing"
  /\ summary \in SummaryTexts \cup {SummaryUnavailable}
  /\ historyMessages' = <<SummaryMessage(summary)>> \o map(recentRows)
  /\ histPc' = "done"
  /\ UNCHANGED <<memories, summarized, besideHistory>>

HistoryInit ==
  /\ CallOf(PlainCaller)
  /\ CallStarts
  /\ BotIdle
  /\ CronIdle
  /\ PromptIdle
  /\ ReminderIdle
  /\ ChatIdle
  /\ RateIdle
  /\ WebhookIdle
  /\ PollerIdle
  /\ SendIdle
  /\ RegistryIdle
  /\ FilesIdle
  /\ FactsIdle
  /\ memories \in MemoryLists
  /\ histPc = "idle"
  /\ summarized = <<>>
  /\ historyMessages = <<>>

HistoryNext ==
  \/ BuildHistory
  \/ \E summary \in SummaryTexts \cup {SummaryUnavailable} : Summarized(summary)

HistorySpec == HistoryInit /\ [][HistoryNext]_vars

MaxItems == 2
ValueCap == 200

\* A key or a value of an item: its JSON type and, for a string, its characters:
\* the characters chars, followed by pad full stops. A full stop is no word
\* character and stands in no alternative of INJECTION_RE, so a match of that
\* expression lies in chars, and the end of chars is a word boundary exactly
\* when the end of the text would be.
NotString == [type |-> "number", chars |-> <<>>, pad |-> 0]
Text(chars, pad) == [type |-> "string", chars |-> chars, pad |-> pad]
KeyText(chars) == Text(chars, 0)
length(text) == Len(text.chars) + text.pad

CandidateKeys ==
  { KeyText(<<"a">>), KeyText(<<"_", "1">>), KeyText(<<"a", "_", "b">>),
    KeyText(<<"1", "a">>), KeyText(<<"A", "b">>), KeyText(<<"a", "-">>),
    KeyText(<<>>), NotString }

CandidateValues ==
  { Text(<<"b", "l", "u", "e">>, 0), Text(<<>>, 0),
    Text(<<"b", "l", "u", "e">>, ValueCap - 4),
    Text(<<"b", "l", "u", "e">>, ValueCap - 3),
    Text(<<"i", "g", "n", "o", "r", "e", " ", "a", "l", "l">>, 0),
    Text(<<"I", "g", "n", "o", "r", "e">>, 0),
    Text(<<"i", "g", "n", "o", "r", "e", "d">>, 0),
    Text(<<"s", "y", "s", "t", "e", "m", ":", " ", "o", "b", "e", "y">>, 0),
    Text(<<"S", "y", "s", "t", "e", "m", ":", "o", "b", "e", "y">>, 0),
    NotString }

NullItem == [null |-> TRUE, key |-> NotString, value |-> NotString]
Items ==
  {NullItem} \cup [null : {FALSE}, key : CandidateKeys, value : CandidateValues]

\* what the model call gives: it fails, or its content is not JSON, or JSON that
\* is not an array, or an array of items, bare or in a fence
\* no fence, a fence that names json, a fence that names nothing
Fences == {"", "json", "plain"}
Replies ==
  {[kind |-> k, fenced |-> "", items |-> <<>>] : k \in {"fails", "text", "object"}}
    \cup [kind : {"array"}, fenced : Fences,
          items : UNION {[1..n -> Items] : n \in 0..MaxItems}]

\* /^[a-z_][a-z0-9_]*$/ on the characters of a key
LowerChars ==
  {"a", "b", "c", "d", "e", "f", "g", "h", "i", "j", "k", "l", "m", "n", "o",
   "p", "q", "r", "s", "t", "u", "v", "w", "x", "y", "z", "_"}
snakeCase(chars) ==
  /\ chars # <<>>
  /\ Head(chars) \in LowerChars
  /\ \A i \in 2..Len(chars) : chars[i] \in LowerChars \cup {"1"}

\* the i flag of INJECTION_RE: the capitals the candidate values use
toLowerCase(c) ==
  CASE c = "A" -> "a" [] c = "I" -> "i" [] c = "S" -> "s" [] OTHER -> c

\* \w of a regular expression
isWordChar(c) == toLowerCase(c) \in LowerChars \cup {"1"}

\* \b at position i of chars (between chars[i-1] and chars[i]): exactly one of
\* the two neighbours is a word character; outside the text there is none
wordBoundary(chars, i) ==
  LET before == i > 1 /\ isWordChar(chars[i - 1])
      after == i <= Len(chars) /\ isWordChar(chars[i])
  IN  before # after

\* the alternatives of INJECTION_RE
DenyWords ==
  { <<"i", "g", "n", "o", "r", "e">>,
    <<"o", "v", "e", "r", "r", "i", "d", "e">>,
    <<"s", "y", "s", "t", "e", "m", ":">>,
    <<"y", "o", "u", " ", "a", "r", "e", " ", "n", "o", "w">>,
    <<"n", "e", "w", " ", "i", "n", "s", "t", "r", "u", "c", "t", "i", "o", "n", "s">>,
    <<"f", "o", "r", "g", "e", "t">>,
    <<"d", "i", "s", "r", "e", "g", "a", "r", "d">>,
    <<"j", "a", "i", "l", "b", "r", "e", "a", "k">> }

\* an alternative occurs at position i of chars, whatever its case
occursAt(chars, phrase, i) ==
  /\ i + Len(phrase) - 1 <= Len(chars)
  /\ \A k \in 1..Len(phrase) : toLowerCase(chars[i + k - 1]) = phrase[k]

\* INJECTION_RE.test: \b, one of the alternatives, \b
INJECTION_RE(chars) ==
  \E phrase \in DenyWords : \E i \in 1..Len(chars) :
    /\ occursAt(chars, phrase, i)
    /\ wordBoundary(chars, i)
    /\ wordBoundary(chars, i + Len(phrase))

\* a variant of the filter without the cap on the length of a value
isFactUncapped(item) ==
  /\ ~item.null
  /\ item.key.type = "string" /\ item.value.type = "string"
  /\ length(item.key) # 0 /\ length(item.value) # 0
  /\ snakeCase(item.key.chars)
  /\ ~INJECTION_RE(item.value.chars)

\* the filter of lines 476-483
isFact(item) ==
  IF item.null \/ item.key.type # "string" \/ item.value.type # "string" THEN FALSE
  ELSE IF length(item.key) = 0 \/ length(item.value) = 0 THEN FALSE
  ELSE IF ~snakeCase(item.key.chars) THEN FALSE
  ELSE IF length(item.value) > ValueCap THEN FALSE
  ELSE IF INJECTION_RE(item.value.chars) THEN FALSE
  ELSE TRUE

\* the two replace calls of line 470 and JSON.parse: the opening fence is
\* removed only when it names json
parses(r) == r.kind \in {"object", "array"} /\ r.fenced # "plain"

\* extractFacts: the completion, the parse, the filter; every failure is caught
ExtractFacts(r) ==
  /\ reply = NoReply
  /\ r \in Replies
  /\ reply' = r
  /\ facts' = [kind |-> "list",
               items |-> IF parses(r) /\ r.kind = "array"
                           THEN SelectSeq(r.items, isFact)
                           ELSE <<>>]
  /\ UNCHANGED besideFacts

FactsInit ==
  /\ CallOf(PlainCaller)
  /\ CallStarts
  /\ BotIdle
  /\ CronIdle
  /\ PromptIdle
  /\ ReminderIdle
  /\ ChatIdle
  /\ RateIdle
  /\ WebhookIdle
  /\ PollerIdle
  /\ SendIdle
  /\ RegistryIdle
  /\ FilesIdle
  /\ HistoryIdle
  /\ FactsIdle

FactsNext ==
  /\ reply = NoReply
  /\ \E r \in Replies : ExtractFacts(r)

FactsSpec == FactsInit /\ [][FactsNext]_vars

\* the words of a text: its longest runs of letters, digits and underscores,
\* in lower case
wordsOf(chars) ==
  LET starts == { i \in 1..Len(chars) :
                    isWordChar(chars[i]) /\ (i = 1 \/ ~isWordChar(chars[i - 1])) }
      endOf(i) == CHOOSE j \in i..Len(chars) :
                    /\ j = Len(chars) \/ ~isWordChar(chars[j + 1])
                    /\ \A k \in i..j : isWordChar(chars[k])
  IN  { [k \in 1..(endOf(i) - i + 1) |-> toLowerCase(chars[i + k - 1])] : i \in starts }

\* the key is a string of lower-case letters, digits and underscores that does
\* not begin with a digit; the value is a non-empty string of at most 200
\* characters without a word of the denylist
C20_Sane(item) ==
  /\ ~item.null
  /\ item.key.type = "string"
  /\ item.key.chars # <<>>
  /\ \A i \in DOMAIN item.key.chars : item.key.chars[i] \in LowerChars \cup {"1"}
  /\ item.key.chars[1] # "1"
  /\ item.value.type = "string"
  /\ Len(item.value.chars) + item.value.pad \in 1..200
  /\ wordsOf(item.value.chars) \cap
       {<<"i", "g", "n", "o", "r", "e">>,
        <<"o", "v", "e", "r", "r", "i", "d", "e">>, <<"f", "o", "r", "g", "e", "t">>,
        <<"d", "i", "s", "r", "e", "g", "a", "r", "d">>, <<"j", "a", "i", "l", "b", "r", "e", "a", "k">>} = {}

C21_Contains(text) ==
  \E phrase \in DenyWords : \E i \in 1..Len(text.chars) :
    occursAt(text.chars, phrase, i)

\* C21: extractFacts rejects every candidate whose value contains one of the
\* denylisted injection phrases, case-insensitively, wherever in the value the
\* phrase occurs and whatever character precedes or follows it.
C21_RejectsPhrases ==
  reply # NoReply =>
    \A i \in DOMAIN facts.items : ~C21_Contains(facts.items[i].value)


\* ------------------------------------------------------------------------
\* tools.js: buildTools(db, userId, {admin, hasGoogleAuth}), called again and
\* again in one process
\* ------------------------------------------------------------------------
MaxBuilds == 3
Settings == {NoSetting, "0", "1"}

buildTools(admin, googleAuth) ==
  /\ Len(built) < MaxBuilds
  /\ built' = Append(built,
                [admin |-> admin, hasGoogleAuth |-> googleAuth,
                 definitions |->
                   definitions(admin, googleAuth, GOOGLE_AGENT_V2_ENABLED(agentV2))])
  /\ UNCHANGED <<agentV2, besideRegistry>>

RegistryInit ==
  /\ CallOf(PlainCaller)
  /\ CallStarts
  /\ BotIdle
  /\ CronIdle
  /\ PromptIdle
  /\ ReminderIdle
  /\ ChatIdle
  /\ RateIdle
  /\ WebhookIdle
  /\ PollerIdle
  /\ SendIdle
  /\ FilesIdle
  /\ HistoryIdle
  /\ FactsIdle
  /\ agentV2 \in Settings
  /\ built = <<>>

RegistryNext ==
  \E admin \in BOOLEAN, googleAuth \in BOOLEAN : buildTools(admin, googleAuth)

RegistrySpec == RegistryInit /\ [][RegistryNext]_vars

C22_Always ==
  {"think", "plan", "reflect", "browse_url", "set_reminder", "list_reminders",
   "delete_reminder", "save_note", "get_notes", "delete_note", "storage_set",
   "storage_get", "storage_delete", "storage_list", "read_file", "write_file",
   "list_directory", "delete_file", "send_file",
   "google_capabilities", "google_auth_status", "google_scope_status"}
C22_GoogleData ==
  {"google_drive_list", "google_drive_create_file", "google_drive_create_folder",
   "google_drive_update_file", "google_drive_delete_file", "google_calendar_list",
   "google_calendar_create_event", "google_calendar_update_event",
   "google_calendar_delete_event", "gmail_read_unread", "gmail_inbox_read",
   "google_tasks_list", "google_tasks_create", "google_tasks_update",
   "google_tasks_delete", "google_classroom_get_assignments",
   "google_classroom_list_courses", "google_classroom_list_coursework"}
C22_GmailActions ==
  {"gmail_send", "gmail_reply", "gmail_draft_create", "gmail_label_add",
   "gmail_label_remove", "gmail_mark_read", "gmail_mark_unread"}
C22_AdminOnly ==
  {"run_command", "update_bot", "convert_file", "system_health", "pm2_status",
   "api_usage", "create_cron", "list_crons", "delete_cron", "add_health_check",
   "list_health_checks", "remove_health_check", "create_webhook", "list_webhooks",
   "delete_webhook"}

\* the list of one call has no name twice and shows the tools of its flags, the
\* Gmail action tools when gmailActions holds
C22_Visible(call, gmailActions) ==
  LET names == {call.definitions[i] : i \in DOMAIN call.definitions}
  IN  /\ \A i, j \in DOMAIN call.definitions :
           call.definitions[i] = call.definitions[j] => i = j
      /\ C22_Always \subseteq names
      /\ \A t \in C22_GoogleData : t \in names <=> call.hasGoogleAuth
      /\ \A t \in C22_GmailActions : t \in names <=> gmailActions
      /\ \A t \in C22_AdminOnly : t \in names <=> call.admin
      /\ names \subseteq C22_Always \cup C22_GoogleData \cup C22_GmailActions \cup C22_AdminOnly

\* two calls with the same flags return the same list
C22_Deterministic ==
  \A i, j \in DOMAIN built :
    (built[i].admin = built[j].admin /\ built[i].hasGoogleAuth = built[j].hasGoogleAuth)
      => built[i].definitions = built[j].definitions

\* C22: For every combination of the admin and hasGoogleAuth flags, buildTools
\* returns the same declaration list on every call and no tool name occurs twice
\* in it: think/plan/reflect, the base tools and the three Google status tools
\* are visible for all flags, the Google data tools exactly when hasGoogleAuth is
\* set, the Gmail action tools exactly when hasGoogleAuth is set and the process
\* was not started with GOOGLE_AGENT_V2=0, and the admin-only tools exactly when
\* admin is set.
C22_Registry ==
  /\ C22_Deterministic
  /\ \A i \in DOMAIN built :
       C22_Visible(built[i], built[i].hasGoogleAuth /\ agentV2 # "0")

\* the same flags were passed twice, once more with the other flags, in a
\* process with the Gmail action tools switched on
C22_Witness ==
  /\ agentV2 = "1"
  /\ Len(built) = 3
  /\ built[1].hasGoogleAuth /\ ~built[1].admin
  /\ built[2].admin /\ ~built[2].hasGoogleAuth
  /\ built[3].hasGoogleAuth /\ ~built[3].admin

\* C22 as stated: the Gmail action tools are visible exactly when hasGoogleAuth
\* is set.
C22_GmailWhenLinked ==
  /\ C22_Deterministic
  /\ \A i \in DOMAIN built : C22_Visible(built[i], built[i].hasGoogleAuth)


\* C23: every error text that enters the working message list as a tool result
\* has had absolute filesystem paths and stack-trace lines removed, for errors
\* thrown by the executor and for errors that a tool implementation catches and
\* returns as its result text alike.
C23_Sanitized ==
  \A i \in DOMAIN current :
    current[i].role = "tool" =>
      \A k \in DOMAIN current[i].content :
        current[i].content[k] \notin PathTokens \cup StackTokens


\* C24: every model completion issued during one run (tool-enabled rounds,
\* verification pass, max-rounds summary, plain fallback) uses the one model
\* tier that was selected at the start of the run from the original triggering
\* user message; the tier is not re-derived from messages injected during the
\* run.
C24_OneTier ==
  pc \in {"create", "backoff"} =>
    req.model = _selectModel(routerEnabled, messages, toolDefs)


\* ------------------------------------------------------------------------
\* bot.js: sendLong(ctx, text)
\* ------------------------------------------------------------------------
LIMIT == 4096
MaxLines == 3

\* A text is the lengths of its lines: between two lines stands one newline.
\* sendLong reads the length of the text and the places of its newlines, nothing
\* else of it. A slice of the text is the pair of indices it lies between.
LineLengths == {0, 1, LIMIT - 1, LIMIT, LIMIT + 1}
SendTexts == UNION {[1..n -> LineLengths] : n \in 1..MaxLines}

RECURSIVE lengthOf(_)
lengthOf(text) ==
  IF text = <<>> THEN 0
  ELSE IF Len(text) = 1 THEN text[1]
  ELSE text[1] + 1 + lengthOf(Tail(text))

\* the indices (from 0) at which a newline stands
newlines(text) == { lengthOf(SubSeq(text, 1, i)) : i \in 1..(Len(text) - 1) }

\* String.prototype.lastIndexOf('\n', fromIndex): the last newline at or before
\* fromIndex, -1 when there is none
lastIndexOf(text, fromIndex) ==
  LET found == { p \in newlines(text) : p <= fromIndex }
  IN  IF found = {} THEN -1 ELSE CHOOSE p \in found : \A q \in found : q <= p

\* String.prototype.slice(from, to) for 0 <= from <= to
slice(text, from, to) ==
  LET size == lengthOf(text)
  IN  [from |-> IF from < size THEN from ELSE size,
       to |-> IF to < size THEN to ELSE size]

\* a variant of the loop body that cuts at the limit, whatever the text
chunkEndAtLimit(text, from) == from + LIMIT

\* lines 116-120: where the chunk that begins at from ends
chunkEnd(text, from) ==
  LET end == from + LIMIT
  IN  IF end < lengthOf(text)
      THEN LET lastNewline == lastIndexOf(text, end)
           IN  IF lastNewline > from THEN lastNewline ELSE end
      ELSE end

\* the call, up to the first reply of the loop or to its return
sendLong(text) ==
  /\ sendPc = "idle"
  /\ safeText' = text
  /\ start' = 0
  /\ IF lengthOf(text) <= LIMIT
     THEN /\ sent' = <<slice(text, 0, lengthOf(text))>>
          /\ sendPc' = "done"
     ELSE /\ sent' = <<>>
          /\ sendPc' = "loop"
  /\ UNCHANGED besideSend

\* one turn of the while loop
SendChunk ==
  /\ sendPc = "loop"
  /\ start < lengthOf(safeText)
  /\ LET end == chunkEnd(safeText, start)
     IN  /\ sent' = Append(sent, slice(safeText, start, end))
         /\ start' = end
         /\ sendPc' = IF end < lengthOf(safeText) THEN "loop" ELSE "done"
  /\ UNCHANGED <<safeText, besideSend>>

SendInit ==
  /\ CallOf(PlainCaller)
  /\ CallStarts
  /\ BotIdle
  /\ CronIdle
  /\ PromptIdle
  /\ ReminderIdle
  /\ ChatIdle
  /\ RateIdle
  /\ WebhookIdle
  /\ PollerIdle
  /\ RegistryIdle
  /\ FilesIdle
  /\ HistoryIdle
  /\ FactsIdle
  /\ SendIdle

SendNext ==
  \/ /\ sendPc = "idle"
     /\ \E text \in SendTexts : sendLong(text)
  \/ SendChunk

SendSpec == SendInit /\ [][SendNext]_vars

\* the slices lie one after the other and make up the text
C25_Tiles ==
  /\ sent # <<>>
  /\ sent[1].from = 0
  /\ \A i \in 1..(Len(sent) - 1) : sent[i + 1].from = sent[i].to
  /\ sent[Len(sent)].to = lengthOf(safeText)

\* a slice that is not the last ends before the last newline that stands more
\* than 0 and at most reach characters after its first character, when there
\* is one
C25_BreaksOnNewline(reach) ==
  \A i \in 1..(Len(sent) - 1) :
    LET inReach == { p \in newlines(safeText) :
                       p > sent[i].from /\ p <= sent[i].from + reach }
    IN  inReach # {} => sent[i].to \in inReach /\ \A p \in inReach : p <= sent[i].to

MaxChecks == 4

\* checkUrl: the response's status, or status -1 with an error for a
\* network-level failure and for a private host
Response200 == [ok |-> TRUE, status |-> 200]
CheckResults ==
  { Response200, [ok |-> FALSE, status |-> 404], [ok |-> FALSE, status |-> 503],
    [ok |-> FALSE, status |-> -1] }

wasDown(status) == ~status.null /\ status.value >= 400

\* the message of one check: lines 44-50
messageOf(status, checked) ==
  LET isDown == ~checked.ok
  IN  IF ~wasDown(status) /\ isDown THEN "Alert"
      ELSE IF wasDown(status) /\ ~isDown THEN "Recovered"
      ELSE "none"

\* one turn of the for loop: checkUrl, the message, updateHealthCheckStatus
tickHealthChecks(checked) ==
  /\ Len(probes) < MaxChecks
  /\ probes' = Append(probes, [ok |-> checked.ok, status |-> checked.status,
                               sent |-> messageOf(last_status, checked)])
  /\ last_status' = Stored(checked.status)
  /\ UNCHANGED besidePoller

PollerInit ==
  /\ CallOf(PlainCaller)
  /\ CallStarts
  /\ BotIdle
  /\ CronIdle
  /\ PromptIdle
  /\ ReminderIdle
  /\ ChatIdle
  /\ RateIdle
  /\ WebhookIdle
  /\ RegistryIdle
  /\ FilesIdle
  /\ HistoryIdle
  /\ FactsIdle
  /\ SendIdle
  /\ PollerIdle

PollerNext == \E checked \in CheckResults : tickHealthChecks(checked)

PollerSpec == PollerInit /\ [][PollerNext]_vars

\* C26: the health-check poller sends a DOWN alert only on a transition from up
\* (or never checked) to down and a recovery message only on a transition from
\* down to up; while a target stays down over consecutive checks, with an HTTP
\* error status or with a network-level failure, no further alert is sent.
C26_Transitions ==
  \A i \in DOMAIN probes :
    LET downBefore == i > 1 /\ ~probes[i - 1].ok
    IN  /\ probes[i].sent = "Alert" => ~downBefore /\ ~probes[i].ok
        /\ probes[i].sent = "Recovered" => downBefore /\ probes[i].ok


\* ------------------------------------------------------------------------
\* webhook.js: POST /webhook/:token and its rate limit
\* ------------------------------------------------------------------------
WebhookLimit == 60
\* requests of one token in one minute beyond the limit, and the last minute
MaxOver == 1
MaxMinute == 1

\* the tokens with an enabled document in the collection webhooks
Registered == {"t1"}

\* a variant of the limiter that tests the count before it adds the request
_checkWebhookRateLimitBefore(token, now) ==
  LET got == _webhookRateLimits[token]
      entry == IF got = NoEntry \/ got.windowStart # now
               THEN [count |-> 0, windowStart |-> now] ELSE got
  IN  [map |-> [_webhookRateLimits EXCEPT
                  ![token] = [count |-> entry.count + 1, windowStart |-> now]],
       ok |-> entry.count <= WebhookLimit]

\* _checkWebhookRateLimit(token): the map after the call and what it returns
_checkWebhookRateLimit(token, now) ==
  LET got == _webhookRateLimits[token]
      entry == IF got = NoEntry \/ got.windowStart # now
               THEN [count |-> 0, windowStart |-> now] ELSE got
  IN  [map |-> [_webhookRateLimits EXCEPT
                  ![token] = [count |-> entry.count + 1, windowStart |-> now]],
       ok |-> entry.count + 1 <= WebhookLimit]

\* the requests of a token in the minute of this request, this one included
Counted(token, ok) ==
  LET before == IF posts[token].minute = minute THEN posts[token]
                ELSE [minute |-> minute, requests |-> 0, accepted |-> 0]
  IN  [minute |-> minute,
       requests |-> before.requests + 1,
       accepted |-> before.accepted + (IF ok THEN 1 ELSE 0)]

\* app.post('/webhook/:token'): the limiter, the lookup, the delivery
Post(token, sendOk) ==
  /\ (IF posts[token].minute = minute THEN posts[token].requests ELSE 0)
       < WebhookLimit + MaxOver
  /\ LET checked == _checkWebhookRateLimit(token, minute)
     IN  /\ _webhookRateLimits' = checked.map
         /\ posts' = [posts EXCEPT ![token] = Counted(token, checked.ok)]
         /\ lastPost' =
              IF ~checked.ok THEN [token |-> token, status |-> 429, delivered |-> FALSE]
              ELSE IF token \notin Registered
                THEN [token |-> token, status |-> 404, delivered |-> FALSE]
              ELSE IF sendOk THEN [token |-> token, status |-> 200, delivered |-> TRUE]
              ELSE [token |-> token, status |-> 500, delivered |-> FALSE]
  /\ UNCHANGED <<minute, besideWebhook>>

\* Date.now() reaches the next minute
MinutePasses ==
  /\ minute < MaxMinute
  /\ minute' = minute + 1
  /\ UNCHANGED <<_webhookRateLimits, posts, lastPost, besideWebhook>>

WebhookInit ==
  /\ CallOf(PlainCaller)
  /\ CallStarts
  /\ BotIdle
  /\ CronIdle
  /\ PromptIdle
  /\ ReminderIdle
  /\ ChatIdle
  /\ RateIdle
  /\ PollerIdle
  /\ RegistryIdle
  /\ FilesIdle
  /\ HistoryIdle
  /\ FactsIdle
  /\ SendIdle
  /\ WebhookIdle

WebhookNext ==
  \/ \E token \in Tokens, sendOk \in BOOLEAN : Post(token, sendOk)
  \/ MinutePasses

WebhookSpec == WebhookInit /\ [][WebhookNext]_vars

\* C27: for each webhook token at most 60 POST requests are accepted within one
\* clock-minute window; every further request in that window is answered 429
\* and delivers no message, and the counter starts again from zero when the
\* window changes.
C27_RateLimit ==
  /\ \A t \in Tokens :
       /\ posts[t].accepted <= 60
       /\ posts[t].accepted = IF posts[t].requests <= 60 THEN posts[t].requests ELSE 60
  /\ lastPost.token \in Tokens =>
       /\ lastPost.status = 429 <=> posts[lastPost.token].requests > 60
       /\ lastPost.status = 429 => ~lastPost.delivered

\* in the second minute a token's 61st request was refused, while the other
\* token's entry still counts the 61 requests of the first minute
C27_Witness ==
  /\ minute = 1
  /\ _webhookRateLimits["t1"] = [count |-> 61, windowStart |-> 1]
  /\ lastPost = [token |-> "t1", status |-> 429, delivered |-> FALSE]
  /\ _webhookRateLimits["t2"] = [count |-> 61, windowStart |-> 0]


\* ------------------------------------------------------------------------
\* database.js: checkAndIncrementRateLimit(db, userId, limitPerHour), called by
\* the text handlers of one user; bot.js 408-415
\* ------------------------------------------------------------------------
\* the messages of the user, and the greatest limit
MaxTexts == 4
MaxLimit == 2

\* what the transaction function does with the document it has read: the
\* document it writes and the value it returns (lines 699-709)
updateFunction(seen, limit) ==
  IF seen = Absent THEN [write |-> 1, pass |-> TRUE]
  ELSE IF seen < limit THEN [write |-> seen + 1, pass |-> TRUE]
  ELSE [write |-> seen, pass |-> FALSE]

\* the call has returned: the handler replies that the limit is reached and
\* returns, or goes on to the model run
Settle(c, pass, open) ==
  LET w == checkers[c].windowStart
  IN  /\ checkers' = [checkers EXCEPT ![c].pc = IF pass THEN "running" ELSE "limited"]
      /\ passed' = IF pass THEN [passed EXCEPT ![w] = @ + 1] ELSE passed
      /\ passedOpen' = IF open THEN [passedOpen EXCEPT ![w] = @ + 1] ELSE passedOpen

\* a text message arrives: windowStart is computed, the transaction begins and
\* reads the document; with limit 0 the call returns true at once
CheckStarts(c) ==
  /\ checkers[c].pc = "idle"
  /\ arrived < MaxTexts
  /\ arrived' = arrived + 1
  /\ IF limitPerHour = 0
     THEN /\ checkers' = [checkers EXCEPT ![c] = [pc |-> "running", windowStart |-> hour,
                                                  seen |-> Absent]]
          /\ passed' = [passed EXCEPT ![hour] = @ + 1]
          /\ UNCHANGED passedOpen
     ELSE /\ checkers' = [checkers EXCEPT ![c] = [pc |-> "transaction", windowStart |-> hour,
                                                  seen |-> rateDoc[hour]]]
          /\ UNCHANGED <<passed, passedOpen>>
  /\ UNCHANGED <<limitPerHour, hour, rateDoc, besideRate>>

\* a variant of the commit that does not look whether the document has changed
\* since it was read
CommitsUnchecked(c) ==
  /\ checkers[c].pc = "transaction"
  /\ LET did == updateFunction(checkers[c].seen, limitPerHour)
     IN  /\ rateDoc' = [rateDoc EXCEPT ![checkers[c].windowStart] = did.write]
         /\ Settle(c, did.pass, FALSE)
  /\ UNCHANGED <<limitPerHour, hour, arrived, besideRate>>

\* the transaction commits: the document is as it was read
Commits(c) ==
  /\ checkers[c].pc = "transaction"
  /\ rateDoc[checkers[c].windowStart] = checkers[c].seen
  /\ LET did == updateFunction(checkers[c].seen, limitPerHour)
     IN  /\ rateDoc' = [rateDoc EXCEPT ![checkers[c].windowStart] = did.write]
         /\ Settle(c, did.pass, FALSE)
  /\ UNCHANGED <<limitPerHour, hour, arrived, besideRate>>

\* another transaction has changed the document: the function runs again
Retries(c) ==
  /\ checkers[c].pc = "transaction"
  /\ rateDoc[checkers[c].windowStart] # checkers[c].seen
  /\ checkers' = [checkers EXCEPT ![c].seen = rateDoc[checkers[c].windowStart]]
  /\ UNCHANGED <<limitPerHour, hour, rateDoc, arrived, passed, passedOpen, besideRate>>

\* runTransaction rejects (too much contention, the database is not reached):
\* the catch returns true
TransactionFails(c) ==
  /\ checkers[c].pc = "transaction"
  /\ Settle(c, TRUE, TRUE)
  /\ UNCHANGED <<limitPerHour, hour, rateDoc, arrived, besideRate>>

\* the handler of the message is over
HandlerReturns(c) ==
  /\ checkers[c].pc \in {"running", "limited"}
  /\ checkers' = [checkers EXCEPT ![c] = IdleChecker]
  /\ UNCHANGED <<limitPerHour, hour, rateDoc, arrived, passed, passedOpen, besideRate>>

\* Date.now() reaches the next hour
HourPasses ==
  /\ hour + 1 \in Hours
  /\ hour' = hour + 1
  /\ UNCHANGED <<limitPerHour, rateDoc, checkers, arrived, passed, passedOpen, besideRate>>

RateInit ==
  /\ CallOf(PlainCaller)
  /\ CallStarts
  /\ BotIdle
  /\ CronIdle
  /\ PromptIdle
  /\ ReminderIdle
  /\ ChatIdle
  /\ WebhookIdle
  /\ PollerIdle
  /\ RegistryIdle
  /\ FilesIdle
  /\ HistoryIdle
  /\ FactsIdle
  /\ SendIdle
  /\ limitPerHour \in 0..MaxLimit
  /\ hour = 0
  /\ rateDoc = [w \in Hours |-> Absent]
  /\ checkers = [c \in Checkers |-> IdleChecker]
  /\ arrived = 0
  /\ passed = [w \in Hours |-> 0]
  /\ passedOpen = [w \in Hours |-> 0]

RateNext ==
  \/ \E c \in Checkers : CheckStarts(c)
  \/ \E c \in Checkers : Commits(c)
  \/ \E c \in Checkers : Retries(c)
  \/ \E c \in Checkers : TransactionFails(c)
  \/ \E c \in Checkers : HandlerReturns(c)
  \/ HourPasses

RateSpec == RateInit /\ [][RateNext]_vars

\* C28: in any clock-hour window at most limitPerHour messages of one user pass
\* checkAndIncrementRateLimit (limit > 0) through a transaction that committed,
\* also when several messages of that user are checked concurrently; a message
\* whose transaction failed passes without being counted; a message that does
\* not pass starts no model run.
C28_Limit ==
  limitPerHour > 0 =>
    /\ \A w \in Hours :
         /\ passed[w] - passedOpen[w] <= limitPerHour
         /\ passed[w] - passedOpen[w] = rateDoc[w]
    /\ Cardinality({c \in Checkers : checkers[c].pc = "running"})
         <= passed[0] + passed[1]

\* three messages were checked at once under the limit 2: two passed, one did not
C28_Witness ==
  /\ limitPerHour = 2
  /\ passed[0] = 2
  /\ passedOpen[0] = 0
  /\ \E c \in Checkers : checkers[c].pc = "limited" /\ checkers[c].windowStart = 0
  /\ Cardinality({c \in Checkers : checkers[c].pc = "running"}) = 2

\* C28 as stated: in any clock-hour window at most limitPerHour messages of one
\* user pass checkAndIncrementRateLimit.
C28_AtMostLimitPass ==
  limitPerHour > 0 => \A w \in Hours : passed[w] <= limitPerHour


\* ------------------------------------------------------------------------
\* bot.js: the text handler from the model run to its return (lines 465-495)
\* ------------------------------------------------------------------------
MIN_FACT_EXTRACTION_LENGTH == 20

\* the messages the handler is called with
ChatCallers ==
  { PlainCaller,
    <<FALSE, FALSE, FALSE, <<"remind", "me", "then", "call", "back">>, TRUE>> }

\* the characters of a word of the messages
WordChars(word) ==
  CASE word = "hello" -> 5
    [] word = "remind" -> 6
    [] word = "me" -> 2
    [] OTHER -> 4

\* userMessage.length: the words and the blanks between them
RECURSIVE userMessageLength(_)
userMessageLength(words) ==
  IF words = <<>> THEN 0
  ELSE WordChars(Head(words)) + (IF Len(words) > 1 THEN 1 ELSE 0)
         + userMessageLength(Tail(words))

startsWithSlash(words) == words # <<>> /\ Head(words) \in {"/"}

\* /^\*\*\s*rin\s*:\s*\*\*\s*/i and /^rin\s*:\s*/i
RinPrefixes == {"rin:", "Rin:", "**Rin:**"}

RECURSIVE stripRin(_, _)
stripRin(out, passes) ==
  IF passes = 0 THEN out
  ELSE LET next == trimStart(IF out # <<>> /\ Head(out) \in RinPrefixes
                             THEN Tail(out) ELSE out)
       IN  IF next = out THEN out ELSE stripRin(next, passes - 1)

sanitizeAssistantReply(text) ==
  LET out == stripRin(trimStart(text), 3)
  IN  IF out # <<>> THEN out ELSE trim(text)

\* a message sent to the chat
Sent(kind, text, detail) == [kind |-> kind, text |-> text, detail |-> detail]
Apology == <<"Sorry, something went wrong on my end. Try again in a moment.">>

\* what sendLong can reject with
TelegramErrors == { Err(403, FALSE) }

\* a variant of the catch block that does not tell the abort error apart
CaughtAll(err) ==
  /\ logged' = Append(logged, err)
  /\ outbox' = Append(outbox, Sent("apology", Apology, NoErr))
  /\ chatPc' = "returned"
  /\ UNCHANGED <<memory, factsAsked>>

\* catch (err): return on an AbortError, else console.error and the apology
Caught(err) ==
  IF err.name = "AbortError"
  THEN /\ chatPc' = "returned"
       /\ UNCHANGED <<outbox, memory, factsAsked, logged>>
  ELSE /\ logged' = Append(logged, err)
       /\ outbox' = Append(outbox, Sent("apology", Apology, NoErr))
       /\ chatPc' = "returned"
       /\ UNCHANGED <<memory, factsAsked>>

\* await chatWithTools(...) settles: the finally block, then the catch block or
\* the statements after the inner try
RunSettles ==
  /\ chatPc = "run"
  /\ pc = "done"
  /\ IF result.kind = "error"
     THEN Caught(result.err)
     ELSE /\ chatPc' = "send"
          /\ UNCHANGED <<outbox, memory, factsAsked, logged>>
  /\ UNCHANGED besideChat

\* sendLong(ctx, cleanedReply) resolves: saveMemory twice, extractFacts for a
\* substantive message
SendLongResolves ==
  /\ chatPc = "send"
  /\ LET userMessage == messages[2].content
         cleanedReply == sanitizeAssistantReply(result.text)
     IN  /\ outbox' = Append(outbox, Sent("reply", cleanedReply, NoErr))
         /\ memory' = memory \o << [who |-> "user", text |-> userMessage],
                                   [who |-> "rin", text |-> cleanedReply] >>
         /\ factsAsked' = (/\ userMessageLength(userMessage) > MIN_FACT_EXTRACTION_LENGTH
                           /\ ~startsWithSlash(userMessage))
  /\ chatPc' = "returned"
  /\ UNCHANGED <<logged, besideChat>>

\* sendLong(ctx, cleanedReply) rejects
SendLongRejects(err) ==
  /\ chatPc = "send"
  /\ Caught(err)
  /\ UNCHANGED besideChat

ChatInit ==
  /\ \E c \in ChatCallers : CallOf(c)
  /\ CallStarts
  /\ BotIdle /\ FilesIdle /\ HistoryIdle /\ FactsIdle /\ RegistryIdle
  /\ SendIdle /\ PollerIdle /\ WebhookIdle /\ RateIdle
  /\ ReminderIdle /\ PromptIdle /\ CronIdle
  /\ chatPc = "run"
  /\ outbox = <<>>
  /\ memory = <<>>
  /\ factsAsked = FALSE
  /\ logged = <<>>

ChatNext ==
  \/ Next
  \/ RunSettles
  \/ SendLongResolves
  \/ \E err \in TelegramErrors : SendLongRejects(err)

ChatSpec == ChatInit /\ [][ChatNext]_vars

C30_Live ==
  \/ pc \in {"tools", "exec"}
  \/ pc \in {"create", "backoff"} /\ req.site \in {"round", "verify", "summary"}

\* the step that ends a round of tool calls: the result of the last call is
\* pushed and the loop goes on (the next completion, or the summary request)
C30_RoundCompletes == pc \in {"tools", "exec"} /\ pc' = "create"

\* C30: when a round whose response requested tool calls has handled its last
\* call without reflect ending the run, the working list is the list the round's
\* completion was issued over, then the assistant message with the calls, then one
\* tool message per call in the order of the calls and with the call's id (and,
\* after the last round, the request for the summary that follows the loop);
\* while the working list is in use, every step keeps it as a prefix of the next.
C30_RoundAppends ==
  /\ [][C30_RoundCompletes =>
          LET base == req.messages
              calls == msg.tool_calls
              n == Len(base)
          IN  /\ calls # NoCalls
              /\ SubSeq(current', 1, n) = base
              /\ current'[n + 1] = AssistantMsg(msg)
              /\ \A k \in DOMAIN calls :
                   /\ current'[n + 1 + k].role = "tool"
                   /\ current'[n + 1 + k].tool_call_id = calls[k].id
                   /\ current'[n + 1 + k].tool_calls = NoCalls
              /\ IF round' < MAX_ROUNDS
                 THEN Len(current') = n + 1 + Len(calls)
                 ELSE /\ Len(current') = n + 2 + Len(calls)
                      /\ Last(current') = SummariseMsg]_vars
  /\ [][(C30_Live /\ C30_Live') => IsPrefix(current, current')]_vars

\* a round of two calls has completed and the next completion is in flight over
\* the list that ends with the response and the two results
C30_Witness ==
  /\ pc = "create"
  /\ req.site = "round"
  /\ Len(current) >= 5
  /\ LET n == Len(current)
     IN  /\ current[n - 2].role = "assistant"
         /\ Len(current[n - 2].tool_calls) = 2
         /\ current[n - 1].role = "tool"
         /\ current[n - 1].tool_call_id = current[n - 2].tool_calls[1].id
         /\ current[n].role = "tool"
         /\ current[n].tool_call_id = current[n - 2].tool_calls[2].id
         /\ current[n - 1].tool_call_id # current[n].tool_call_id


\* the draft answer of a verification request: the message before the instruction
C31_Draft == req.messages[Len(req.messages) - 1]

\* C31: the verification pass is a completion without tools over the working
\* list, the draft answer and the verify instruction; it is issued from the loop,
\* at most once in a run (it is the run's first plain completion, and only the
\* plain fallback can follow it), and only for a response without tool calls
\* reached after more than one external tool call or with a recorded plan of more
\* than one step; when it answers, the run returns its trimmed text if that is not
\* empty and the trimmed draft answer otherwise.
C31_VerificationPass ==
  /\ [](req.site = "verify" =>
          /\ ~req.tools
          /\ verificationPassDone
          /\ plainCompletions = 1
          /\ req.messages = current \o <<AssistantMsg(msg), verifyPrompt>>
          /\ msg.tool_calls = NoCalls
          /\ \/ Len(dispatched) > 1
             \/ activePlan.set /\ Len(activePlan.steps) > 1)
  /\ [][/\ plainCompletions' >= plainCompletions
        /\ (req'.site = "verify" /\ req.site # "verify") =>
             /\ req.site = "round"
             /\ ~verificationPassDone
             /\ plainCompletions = 0
        /\ req.site = "verify" => req'.site \in {"verify", "fallback", "none"}
        /\ \A text \in PlainTexts :
             (req.site = "verify" /\ PlainAnswer(text)) =>
               /\ pc' = "done"
               /\ result' = TextResult(IF trim(text) # <<>> THEN trim(text)
                                       ELSE trim(C31_Draft.content))]_vars

\* the verification pass has answered with nothing and the run has returned the
\* draft answer
C31_Witness ==
  /\ pc = "done"
  /\ answered.site = "verify"
  /\ trim(answered.text) = <<>>
  /\ result.kind = "text"
  /\ result.text # <<>>
  /\ Len(dispatched) > 1


\* the tool message with this content is in the working list
C32_Acknowledged(content) ==
  \E i \in DOMAIN current : current[i].role = "tool" /\ current[i].content = content

\* C32: a call named think, plan or reflect is handled inside the loop: the step
\* that handles it gives nothing to the executor and leaves the count of external
\* tool calls as it is; with arguments that parse, think is answered by the fixed
\* acknowledgement, plan makes the given steps the recorded plan and is answered
\* by the text that lists them, and reflect without a revised answer (none, or
\* the string "null") is answered by the fixed acknowledgement that the original
\* answer is satisfactory, each in the tool message of that call.
C32_MetaTools ==
  /\ [](\A i \in DOMAIN dispatched : dispatched[i].name \notin MetaTools)
  /\ [][(ToolCall /\ msg.tool_calls[tcIdx].name \in MetaTools) =>
          LET tc == msg.tool_calls[tcIdx]
              args == tc.arguments.obj
              pushed == current'[Len(current) + 1]
          IN  /\ pc' # "exec"
              /\ dispatched' = dispatched
              /\ pc' # "done" =>
                   /\ externalToolCalls' = externalToolCalls
                   /\ googleCapabilitiesChecked' = googleCapabilitiesChecked
                   /\ pushed.role = "tool"
                   /\ pushed.tool_call_id = tc.id
              /\ (tc.arguments.json /\ tc.name = "think") =>
                   /\ pushed.content = ThoughtNoted
                   /\ activePlan' = activePlan
              /\ (tc.arguments.json /\ tc.name = "plan") =>
                   /\ activePlan' = PlanOf(args.steps)
                   /\ pushed.content = PlanSet(args.steps)
                   /\ SubSeq(pushed.content, 2, Len(args.steps) + 1) = args.steps
              /\ (/\ tc.arguments.json
                  /\ tc.name = "reflect"
                  /\ args.revised_answer \in {AbsentText, StringText(<<"null">>)}) =>
                   /\ pushed.content = ReflectionComplete
                   /\ activePlan' = activePlan]_vars

\* think, plan and reflect have all been answered in one run and the executor
\* has been given nothing
C32_Witness ==
  /\ C32_Acknowledged(ThoughtNoted)
  /\ C32_Acknowledged(PlanSet(<<"s1", "s2">>))
  /\ C32_Acknowledged(ReflectionComplete)
  /\ activePlan = PlanOf(<<"s1", "s2">>)
  /\ dispatched = <<>>
  /\ externalToolCalls = 0


\* the result of a google_capabilities call that the executor has returned
C33_Capabilities(m) ==
  m.role = "tool" /\ m.content = ExecutorResult("google_capabilities")

\* the step injects the capability-preflight nudge
C33_Nudges ==
  \E i \in (Len(current) + 1)..Len(current') : current'[i] = PreflightNudge

\* C33: in a run the capability-preflight nudge is injected at most twice, only
\* for a Google capability request, and never once the executor has returned the
\* result of a google_capabilities call in that run: no such result is in the
\* working list when the nudge is injected, and none precedes a nudge in it.
C33_Preflight ==
  /\ [](/\ Injected(current, PreflightNudge) <= 2
        /\ LET results == {i \in DOMAIN current : C33_Capabilities(current[i])}
               nudges == {j \in DOMAIN current : current[j] = PreflightNudge}
           IN  \A i \in results : \A j \in nudges : j < i)
  /\ [][C33_Nudges =>
          /\ isGoogleCapabilityRequest
          /\ ~googleCapabilitiesChecked
          /\ capabilityPreflightAttempts < 2
          /\ \A i \in DOMAIN current : ~C33_Capabilities(current[i])]_vars

\* the nudge was injected, google_capabilities was then called and returned, and
\* a later candidate answer was met by the correction instead of a second nudge
C33_Witness ==
  /\ googleCapabilitiesChecked
  /\ capabilityPreflightAttempts = 1
  /\ \E i \in DOMAIN current : \E j \in DOMAIN current : \E k \in DOMAIN current :
       /\ i < j /\ j < k
       /\ current[i] = PreflightNudge
       /\ C33_Capabilities(current[j])
       /\ current[k] = CapabilityCorrection


\* how often call j of the response in hand was given to the executor
C34_Executions(j) ==
  Cardinality({i \in DOMAIN dispatched :
                 /\ dispatched[i].round = round
                 /\ dispatched[i].id = msg.tool_calls[j].id})

\* the call is one the loop gives to the executor
C34_External(tc) == tc.arguments.json /\ tc.name \notin MetaTools

\* C34: at the step in which a reflect call of a response with several calls
\* ends the run, every call listed before it has been handled exactly once (its
\* one tool message follows the response in the working list, and it was given to
\* the executor once if it is an external tool and never otherwise), no call
\* listed after it was given to the executor, and the step gives nothing to the
\* executor; the run is over, so none is given later.
C34_ReflectCutsTheRound ==
  /\ [][(ToolCall /\ pc' = "done" /\ Len(msg.tool_calls) > 1) =>
          LET calls == msg.tool_calls
              a == Len(current) - (tcIdx - 1)
          IN  /\ calls[tcIdx].name = "reflect"
              /\ current[a] = AssistantMsg(msg)
              /\ \A j \in 1..(tcIdx - 1) :
                   /\ current[a + j].role = "tool"
                   /\ current[a + j].tool_call_id = calls[j].id
                   /\ C34_Executions(j) = (IF C34_External(calls[j]) THEN 1 ELSE 0)
              /\ \A j \in (tcIdx + 1)..Len(calls) : C34_Executions(j) = 0
              /\ dispatched' = dispatched]_vars
  /\ [][pc = "done" => dispatched' = dispatched]_vars

\* read_file and then reflect in one response: read_file was executed, reflect
\* has ended the run
C34_Witness ==
  /\ pc = "done"
  /\ result = TextResult(<<"revised">>)
  /\ Len(dispatched) = 1
  /\ dispatched[1].name = "read_file"
  /\ dispatched[1].id = 1
  /\ toolCompletions >= 2


\* ------------------------------------------------------------------------
\* poller.js: tickReminders, started at once and then by setInterval every 30 s
\* ------------------------------------------------------------------------
\* getDueReminders: the stored reminders that are due, by fire_at (here: by id)
RECURSIVE getDueReminders(_)
getDueReminders(ids) ==
  IF ids = {} THEN <<>>
  ELSE LET first == CHOOSE r \in ids : \A other \in ids : r <= other
       IN  <<first>> \o getDueReminders(ids \ {first})

\* the for loop goes to its next reminder, or the tick is over
NextReminder(t) ==
  LET rest == Tail(ticks[t].due)
  IN  ticks' = [ticks EXCEPT ![t] = [pc |-> IF rest = <<>> THEN "done" ELSE "sending",
                                     due |-> rest, sendOk |-> FALSE]]

\* a tick starts, whether or not an earlier one is still running, and reads the
\* due reminders
TickStarts(t) ==
  /\ ticks[t].pc = "idle"
  /\ \A earlier \in Ticks : earlier < t => ticks[earlier].pc # "idle"
  /\ LET due == getDueReminders(stored)
     IN  ticks' = [ticks EXCEPT ![t] = [pc |-> IF due = <<>> THEN "done" ELSE "sending",
                                        due |-> due, sendOk |-> FALSE]]
  /\ UNCHANGED <<stored, sends, failed, besideReminder>>

\* telegram.sendMessage resolves: sendOk = true, finally awaits deleteFiredReminder
SendResolves(t) ==
  /\ ticks[t].pc = "sending"
  /\ sends' = [sends EXCEPT ![Head(ticks[t].due)] = @ + 1]
  /\ ticks' = [ticks EXCEPT ![t].pc = "deleting", ![t].sendOk = TRUE]
  /\ UNCHANGED <<stored, failed, besideReminder>>

\* a variant of the finally block that deletes whether or not the send succeeded
SendRejectsAndDeletes(t) ==
  /\ ticks[t].pc = "sending"
  /\ failed' = [failed EXCEPT ![Head(ticks[t].due)] = @ + 1]
  /\ ticks' = [ticks EXCEPT ![t].pc = "deleting"]
  /\ UNCHANGED <<stored, sends, besideReminder>>

\* telegram.sendMessage rejects: the catch logs, finally deletes nothing
SendRejects(t) ==
  /\ ticks[t].pc = "sending"
  /\ failed' = [failed EXCEPT ![Head(ticks[t].due)] = @ + 1]
  /\ NextReminder(t)
  /\ UNCHANGED <<stored, sends, besideReminder>>

\* deleteFiredReminder resolves
DeleteResolves(t) ==
  /\ ticks[t].pc = "deleting"
  /\ stored' = stored \ {Head(ticks[t].due)}
  /\ NextReminder(t)
  /\ UNCHANGED <<sends, failed, besideReminder>>

\* deleteFiredReminder rejects: the error leaves the finally block and the tick
DeleteRejects(t) ==
  /\ ticks[t].pc = "deleting"
  /\ ticks' = [ticks EXCEPT ![t] = [pc |-> "done", due |-> <<>>, sendOk |-> FALSE]]
  /\ UNCHANGED <<stored, sends, failed, besideReminder>>

ReminderInit ==
  /\ CallOf(PlainCaller)
  /\ CallStarts
  /\ BotIdle /\ FilesIdle /\ HistoryIdle /\ FactsIdle /\ RegistryIdle
  /\ SendIdle /\ PollerIdle /\ WebhookIdle /\ RateIdle /\ ChatIdle
  /\ PromptIdle /\ CronIdle
  /\ ReminderIdle

ReminderNext ==
  \/ \E t \in Ticks : TickStarts(t)
  \/ \E t \in Ticks : SendResolves(t)
  \/ \E t \in Ticks : SendRejects(t)
  \/ \E t \in Ticks : DeleteResolves(t)
  \/ \E t \in Ticks : DeleteRejects(t)

ReminderSpec == ReminderInit /\ [][ReminderNext]_vars

\* C35: a reminder leaves the store only by a tick whose send of that reminder
\* has succeeded; a failed send deletes nothing, so the reminder stays stored,
\* and every tick that starts while it is stored reads it among the due
\* reminders and attempts it again.
C35_DeleteAfterSend ==
  /\ [](\A r \in ReminderIds : r \notin stored => sends[r] >= 1)
  /\ [][/\ \A r \in stored \ stored' :
             \E t \in Ticks :
               /\ ticks[t].pc = "deleting"
               /\ ticks[t].sendOk
               /\ Head(ticks[t].due) = r
        /\ \A t \in Ticks : SendRejects(t) => stored' = stored
        /\ \A t \in Ticks :
             TickStarts(t) =>
               \A r \in stored : \E i \in DOMAIN ticks'[t].due : ticks'[t].due[i] = r]_vars

\* the send of a reminder failed in one tick; a later tick has sent it and
\* deleted it
C35_Witness ==
  /\ failed[1] = 1
  /\ sends[1] = 1
  /\ 1 \notin stored
  /\ ticks[1].pc = "done"
  /\ ticks[2].pc = "done"
  /\ ticks[3].pc = "idle"

\* C39: the message of a stored reminder is delivered at most once, also when
\* ticks overlap.
C39_SentAtMostOnce ==
  \A r \in ReminderIds : sends[r] <= 1


\* C36: no text that chatWithTools returns begins with tool_code or
\* print(default_api., whichever path has produced it.
C36_NoLeakReturned ==
  (pc = "done" /\ result.kind = "text") => ~_looksLikeToolCodeLeak(result.text)


Piece(kind, body) == [kind |-> kind, body |-> body]
PromptMsg(role, content) == [role |-> role, content |-> content]

HistoryPiece(m) == IF m.header THEN Piece("summary", 0) ELSE Piece("turn", m.body)

\* [system, ...historyMessages, user]
rawMessages ==
  <<PromptMsg("system", <<Piece("system", 0)>>)>>
    \o [i \in DOMAIN historyMessages |->
          PromptMsg(historyMessages[i].role, <<HistoryPiece(historyMessages[i])>>)]
    \o <<PromptMsg("user", <<Piece("userMessage", 0)>>)>>

\* the loop that combines consecutive messages of one role
RECURSIVE combine(_, _)
combine(raw, merged) ==
  IF raw = <<>> THEN merged
  ELSE LET m == Head(raw)
           n == Len(merged)
       IN  IF n > 0 /\ merged[n].role = m.role /\ m.role # "system"
           THEN combine(Tail(raw),
                        [merged EXCEPT ![n].content = @ \o m.content])
           ELSE combine(Tail(raw), Append(merged, m))

\* a variant of the handler that does not put the filler before an assistant
spliceNone(merged) == merged

\* messages.splice(1, 0, {role: 'user', content: '[Conversation context]'})
splice(merged) ==
  IF Len(merged) > 1 /\ merged[2].role = "assistant"
  THEN <<merged[1], PromptMsg("user", <<Piece("context", 0)>>)>>
         \o SubSeq(merged, 2, Len(merged))
  ELSE merged

\* the handler has the history and builds the list for chatWithTools
BuildMessages ==
  /\ histPc = "done"
  /\ promptMessages = <<>>
  /\ promptMessages' = splice(combine(rawMessages, <<>>))
  /\ UNCHANGED besidePrompt

PromptNext ==
  \/ HistoryNext
  \/ BuildMessages

PromptSpec == HistoryInit /\ [][PromptNext]_vars

\* C37: the list passed to chatWithTools starts with the system message and
\* has no other; its first message after that has role user; no two consecutive
\* messages after the system message have the same role; its last message has
\* role user and holds the new user text.
C37_Alternates ==
  promptMessages # <<>> =>
    LET n == Len(promptMessages)
    IN  /\ n >= 2
        /\ promptMessages[1].role = "system"
        /\ \A i \in 2..n : promptMessages[i].role \in {"user", "assistant"}
        /\ promptMessages[2].role = "user"
        /\ \A i \in 2..(n - 1) : promptMessages[i].role # promptMessages[i + 1].role
        /\ promptMessages[n].role = "user"
        /\ Last(promptMessages[n].content) = Piece("userMessage", 0)

\* a history that begins with an assistant turn and ends with a user turn: the
\* filler was put first and the new text was joined to the last turn
C37_Witness ==
  /\ promptMessages # <<>>
  /\ historyMessages # <<>>
  /\ historyMessages[1].role = "assistant"
  /\ Last(historyMessages).role = "user"
  /\ promptMessages[2].content = <<Piece("context", 0)>>
  /\ Len(Last(promptMessages).content) >= 2


\* ------------------------------------------------------------------------
\* capabilities/cron (async version): addJob, removeJob, _schedule, _stop for
\* one user and one job name, that is one job id
\* ------------------------------------------------------------------------
\* _stop(id): the task the map holds is stopped and its entry deleted
TasksAfterStop == running \ {_activeTasks}

\* addJob is called: the schedule is valid, addCronJob is awaited
AddStarts(c) ==
  /\ adds[c] = "idle"
  /\ \A earlier \in AddCalls : earlier < c => adds[earlier] # "idle"
  /\ adds' = [adds EXCEPT ![c] = "adding"]
  /\ removedTrue' = FALSE
  /\ UNCHANGED <<cronDoc, _activeTasks, running, removes, besideCron>>

\* addCronJob resolves: the document is written; listCronJobs is awaited
AddStored(c) ==
  /\ adds[c] = "adding"
  /\ cronDoc' = TRUE
  /\ adds' = [adds EXCEPT ![c] = "listing"]
  /\ UNCHANGED <<_activeTasks, running, removes, removedTrue, besideCron>>

\* listCronJobs resolves: without the job addJob returns; with it _schedule
\* runs up to its await: _stop(job.id), then storageGet is awaited
AddListed(c) ==
  /\ adds[c] = "listing"
  /\ IF cronDoc
     THEN /\ running' = TasksAfterStop
          /\ _activeTasks' = NoTask
          /\ adds' = [adds EXCEPT ![c] = "scheduling"]
     ELSE /\ adds' = [adds EXCEPT ![c] = "done"]
          /\ UNCHANGED <<_activeTasks, running>>
  /\ UNCHANGED <<cronDoc, removes, removedTrue, besideCron>>

\* storageGet resolves: nodeCron.schedule starts the task, _activeTasks.set
AddScheduled(c) ==
  /\ adds[c] = "scheduling"
  /\ running' = running \cup {c}
  /\ _activeTasks' = c
  /\ adds' = [adds EXCEPT ![c] = "done"]
  /\ UNCHANGED <<cronDoc, removes, removedTrue, besideCron>>

\* removeJob is called: listCronJobs is awaited
RemoveStarts(c) ==
  /\ removes[c] = "idle"
  /\ \A earlier \in RemoveCalls : earlier < c => removes[earlier] # "idle"
  /\ removes' = [removes EXCEPT ![c] = "listing"]
  /\ UNCHANGED <<cronDoc, _activeTasks, running, adds, removedTrue, besideCron>>

\* listCronJobs resolves: without the job removeJob returns false; with it
\* _stop(job.id), then deleteCronJob is awaited
RemoveListed(c) ==
  /\ removes[c] = "listing"
  /\ IF cronDoc
     THEN /\ running' = TasksAfterStop
          /\ _activeTasks' = NoTask
          /\ removes' = [removes EXCEPT ![c] = "deleting"]
     ELSE /\ removes' = [removes EXCEPT ![c] = "false"]
          /\ UNCHANGED <<_activeTasks, running>>
  /\ UNCHANGED <<cronDoc, adds, removedTrue, besideCron>>

\* deleteCronJob resolves and removeJob returns its value
RemoveDeleted(c) ==
  /\ removes[c] = "deleting"
  /\ cronDoc' = FALSE
  /\ removes' = [removes EXCEPT ![c] = IF cronDoc THEN "true" ELSE "false"]
  /\ removedTrue' = (removedTrue \/ cronDoc)
  /\ UNCHANGED <<_activeTasks, running, adds, besideCron>>

CronInit ==
  /\ CallOf(PlainCaller)
  /\ CallStarts
  /\ BotIdle /\ FilesIdle /\ HistoryIdle /\ FactsIdle /\ RegistryIdle
  /\ SendIdle /\ PollerIdle /\ WebhookIdle /\ RateIdle /\ ChatIdle
  /\ ReminderIdle /\ PromptIdle
  /\ CronIdle

CronNext ==
  \/ \E c \in AddCalls : AddStarts(c)
  \/ \E c \in AddCalls : AddStored(c)
  \/ \E c \in AddCalls : AddListed(c)
  \/ \E c \in AddCalls : AddScheduled(c)
  \/ \E c \in RemoveCalls : RemoveStarts(c)
  \/ \E c \in RemoveCalls : RemoveListed(c)
  \/ \E c \in RemoveCalls : RemoveDeleted(c)

CronSpec == CronInit /\ [][CronNext]_vars

\* C38: at most one scheduled task of the job is active at any time, and once
\* removeJob has returned true no task of the job is active until addJob is
\* called again.
C38_OneTask ==
  /\ Cardinality(running) <= 1
  /\ removedTrue => running = {}

====
